---- MODULE Spec2Model ----
(***************************************************************************)
(* Model of the legacy-data migration engine of new-bot:                   *)
(*   scripts/components/buttons/settings/migration_button.py               *)
(*   scripts/Utils/models/{base,user,alliance,bear_notifications,...}.py   *)
(*   scripts/Utils/models/migration.py                                     *)
(*                                                                         *)
(* Encoding of Python / SQLite values as integers:                         *)
(*     -1          None / SQL NULL                                         *)
(*     0 .. 99     int                                                     *)
(*     100 .. 149  str holding the decimal digits of 0 .. 49  ("5" = 105)  *)
(*     150 .. 199  any other str                                           *)
(* A datetime is a tick of the model clock (a natural number; the stamp    *)
(* 160 is tick 0, before every run).  A source row is a tuple, as         *)
(* sqlite3's fetchall() returns it: row[i] of the code is row[i+1] here    *)
(* and len(row) is Len(row).                                               *)
(*                                                                         *)
(* Destination semantics are those the model classes declare to peewee:    *)
(* primary keys, NOT NULL columns, integer coercion of integer fields and  *)
(* foreign keys enforced by reference (pragma foreign_keys = 1).           *)
(***************************************************************************)
EXTENDS Integers, Sequences, FiniteSets, TLC

VARIABLES
    dirExists,        \* os.path.exists(<root>/old_data)
    files,            \* names of the files present in old_data
    src,              \* content of the legacy SQLite files: table -> [state, rows]
    noTable,          \* destination tables that were never created
    dest,             \* destination store: table -> set of rows
    db_connections,   \* MigrationButton.db_connections: path -> connection handle
    liveConns,        \* handles of sqlite3 connections that are open
    opened,           \* number of sqlite3.connect calls made by the current run
    acquired,         \* paths passed to _get_connection by the current run
    rollback_data,    \* MigrationButton.rollback_data: table name -> snapshot
    pc,               \* position of the run inside callback / migrate_vN
    version,          \* result of detect_database_version
    path,             \* resolved source path of detect_database_version
    alliance_id,      \* the operator's selection (v2)
    messages,         \* the report's message list
    success,          \* the report's success flag
    outcome,          \* how the last run ended
    exc,              \* exception in flight ("" when none)
    txn,              \* destination as it was when db.atomic() was entered
    clock,            \* datetime.now()
    runs,             \* number of runs started
    hist,             \* one record per finished run
    before,           \* destination as it was when the current run started
    restore,          \* _rollback in the current run: "none", "completed", "raised"
    raised,           \* an exception left migrate_vN instead of a report
    failedAt,         \* position at which the exception in flight was raised
    poolImpl,         \* which class's connection pool PoolSpec exercises
    poolOps,          \* _get_connection calls made in PoolSpec
    conc              \* callbacks in flight on one MigrationButton (ConcSpec)

vars == <<dirExists, files, src, noTable, dest, db_connections, liveConns,
          opened, acquired, rollback_data, pc, version, path, alliance_id,
          messages, success, outcome, exc, txn, clock, runs, hist, before,
          restore, raised, failedAt, poolImpl, poolOps, conc>>

-----------------------------------------------------------------------------
(* Bounds *)

MaxRuns == 2          \* runs started on one MigrationButton instance
MaxSrcItems == 2      \* source rows plus source/destination anomalies
MaxPreRows == 2       \* rows the destination holds before the first run
MaxPoolOps == 5       \* _get_connection calls in the pool specification
MaxExtItems == 3      \* source rows of the v4 extension tables in ExtSpec
MaxTasks == 2         \* callbacks in flight on one MigrationButton in ConcSpec

-----------------------------------------------------------------------------
(* Values *)

NULL == 0 - 1
IsInt(v) == v \in 0..99
IsStr(v) == v >= 100
\* str(n) for a small int
Str(n) == 100 + n
\* int(v) as peewee's IntegerField.adapt applies it; IntOk says it does not raise
IntOk(v) == IsInt(v) \/ v \in 100..149
ToInt(v) == IF IsInt(v) THEN v ELSE v - 100
\* datetime.strptime(s, '%Y-%m-%d %H:%M:%S'): 160 is "2024-01-01 00:00:00",
\* every other str raises ValueError
StampOk(s) == s = 160
strptime(s) == s - 160

-----------------------------------------------------------------------------
(* Version detector *)

v4_files == {"users.sqlite", "alliance.sqlite", "giftcode.sqlite",
             "changes.sqlite", "settings.sqlite", "id_channel.sqlite",
             "beartime.sqlite", "backup.sqlite"}
v3_files == {"users.sqlite", "alliance.sqlite", "giftcode.sqlite",
             "changes.sqlite", "settings.sqlite"}
v2_file == "gift_db.sqlite"
base_path == "old_data"
AllFiles == v4_files \cup {v2_file, "notes.txt"}

\* os.path.exists(os.path.join(base_path, f))
FileExists(d, fs, f) == d /\ f \in fs

detect_database_version_anyv3(d, fs) ==
    IF ~d THEN <<"none", base_path>>
    ELSE IF \A f \in v4_files : FileExists(d, fs, f) THEN <<"v4", base_path>>
    ELSE IF \E f \in v3_files : FileExists(d, fs, f) THEN <<"v3", base_path>>
    ELSE IF FileExists(d, fs, v2_file) THEN <<"v2", v2_file>>
    ELSE <<"unknown", base_path>>

detect_database_version_v2_first(d, fs) ==
    IF ~d THEN <<"none", base_path>>
    ELSE IF FileExists(d, fs, v2_file) THEN <<"v2", v2_file>>
    ELSE IF \A f \in v4_files : FileExists(d, fs, f) THEN <<"v4", base_path>>
    ELSE IF \A f \in v3_files : FileExists(d, fs, f) THEN <<"v3", base_path>>
    ELSE <<"unknown", base_path>>

detect_database_version(d, fs) ==
    IF ~d THEN <<"none", base_path>>
    ELSE IF \A f \in v4_files : FileExists(d, fs, f) THEN <<"v4", base_path>>
    ELSE IF \A f \in v3_files : FileExists(d, fs, f) THEN <<"v3", base_path>>
    ELSE IF FileExists(d, fs, v2_file) THEN <<"v2", v2_file>>
    ELSE <<"unknown", base_path>>

-----------------------------------------------------------------------------
(* Legacy source content *)

LegacyTables == <<"users", "alliance_list", "alliancesettings", "gift_codes",
                  "user_giftcodes", "furnace_changes", "nickname_changes",
                  "botsettings", "admin">>
V4Tables == <<"id_channel", "bear_notifications", "bear_notification_embeds",
              "backup_passwords">>
Range(f) == {f[i] : i \in DOMAIN f}
AllTables == Range(LegacyTables) \cup Range(V4Tables)

\* tables a layout's files hold
LayoutTables(layout) ==
    CASE layout = "v2" -> {"users", "gift_codes", "user_giftcodes"}
      [] layout = "v3" -> Range(LegacyTables)
      [] layout = "v4" -> AllTables
      [] OTHER -> {}

\* candidate rows of each source table (151 "Alice", 152 "Bob", 153 "abc",
\* 154 "Vikings", 155 a gift code, 156 a date, 157 a status, 158 a title,
\* 159 a discord id, 161 a password, 160 a well-formed stamp, 162 "yesterday")
RowAlphabet(t) ==
    CASE t = "users" ->
            << <<1, 151, 10, NULL, NULL, 105, NULL, 160>>,
               <<2, 152, 7, NULL, NULL, 105>>,
               <<1, 152, 7, NULL, NULL, 105, NULL, 160>>,
               <<3, NULL, 10, NULL, NULL, 105, NULL, 160>>,
               <<153, 151, 10, NULL, NULL, 105>> >>
      [] t = "alliance_list" -> << <<5, 154>> >>
      [] t = "alliancesettings" -> << <<5, 90>> >>
      [] t = "gift_codes" -> << <<155, 156>> >>
      [] t = "user_giftcodes" -> << <<1, 155, 157>> >>
      [] t = "furnace_changes" -> << <<1, 1, 9, 10, 156>> >>
      [] t = "nickname_changes" -> << <<1, 1, 152, 151, 156>> >>
      [] t = "botsettings" -> << <<1, 90>> >>
      [] t = "admin" -> << <<1, 1>> >>
      [] t = "id_channel" -> << <<90, 5, NULL>> >>
      [] t = "bear_notifications" ->
            << <<1, 7, 30, 160>>, <<2, 8, 30>>, <<3, 7, 45, 162>> >>
      [] t = "bear_notification_embeds" ->
            << <<1, 7, 158, 160>>, <<2, 9, 158>>, <<3, 8, 158>> >>
      [] t = "backup_passwords" -> << <<159, 161, 160>> >>

\* a source table that does not exist, or lacks one of its columns
AbsentTables == {"users"} \cup Range(V4Tables)
NoColTables == {"id_channel", "backup_passwords"}
\* destination tables that initialize_db may never have created
UncreatedTables == {"bear_notifications", "backup_passwords"}

Items(layout) ==
    {<<"row", t, k>> : t \in LayoutTables(layout), k \in 1..3} \cup
    {<<"row", t, k>> : t \in LayoutTables(layout) \cap {"users"}, k \in 4..5} \cup
    {<<"absent", t, 0>> : t \in AbsentTables \cap LayoutTables(layout)} \cup
    {<<"nocol", t, 0>> : t \in NoColTables \cap LayoutTables(layout)} \cup
    {<<"notable", t, 0>> : t \in IF layout = "v4" THEN UncreatedTables ELSE {}}

ItemOk(it) == it[1] # "row" \/ it[3] <= Len(RowAlphabet(it[2]))

ItemSeqs(layout) ==
    UNION {[1..n -> {it \in Items(layout) : ItemOk(it)}] : n \in 0..MaxSrcItems}

TableOf(layout, items, t) ==
    LET st == IF t \notin LayoutTables(layout) THEN "absent"
              ELSE IF \E i \in DOMAIN items : items[i] = <<"absent", t, 0>> THEN "absent"
              ELSE IF \E i \in DOMAIN items : items[i] = <<"nocol", t, 0>> THEN "nocol"
              ELSE "ok"
        sel == SelectSeq(items, LAMBDA it : it[1] = "row" /\ it[2] = t)
    IN [state |-> st,
        rows |-> IF st = "ok" THEN [i \in DOMAIN sel |-> RowAlphabet(t)[sel[i][3]]]
                 ELSE <<>>]

BuildSource(layout, items) == [t \in AllTables |-> TableOf(layout, items, t)]
BuildNoTable(items) == {it[2] : it \in {x \in Range(items) : x[1] = "notable"}}

-----------------------------------------------------------------------------
(* Destination store *)

DestTables == {"users", "alliance_list", "furnace_changes", "bear_notifications",
               "bear_notification_embeds", "backup_passwords"}
EmptyDest == [t \in DestTables |-> {}]

PreUser == [fid |-> 1, nickname |-> 152, furnace_lv |-> 5, kid |-> 4,
            stove_lv_content |-> NULL, alliance |-> 105,
            created_at |-> 0, updated_at |-> 0]
PreAlliance == [alliance_id |-> 5, name |-> 154, discord_server_id |-> NULL,
                created_at |-> 0, updated_at |-> 0]
PreFurnaceChange == [id |-> 1, fid |-> 1, old_furnace_lv |-> 4, new_furnace_lv |-> 5,
                     change_date |-> 156, created_at |-> 0, updated_at |-> 0]
PreNotification == [id |-> 1, notification_id |-> 7, notification_time |-> 20,
                    sent_at |-> 0, created_at |-> 0, updated_at |-> 0]

PreKinds == {"users", "alliance_list", "furnace_changes", "bear_notifications"}
PreChoices == {S \in SUBSET PreKinds :
                 /\ Cardinality(S) <= MaxPreRows
                 /\ ("furnace_changes" \in S => "users" \in S)}
PreDest(S) ==
    [t \in DestTables |->
        IF t \notin S THEN {}
        ELSE CASE t = "users" -> {PreUser}
               [] t = "alliance_list" -> {PreAlliance}
               [] t = "furnace_changes" -> {PreFurnaceChange}
               [] t = "bear_notifications" -> {PreNotification}]

-----------------------------------------------------------------------------
(* peewee models.  An operation that may raise returns [e, d]: e is the    *)
(* exception's class name ("" when the call returned) and d the table or   *)
(* store as the call left it.                                              *)

Ok(d) == [e |-> "", d |-> d]
Raise(name, d) == [e |-> name, d |-> d]

\* TextField.adapt: a non-str value is stored as its str()
TextCoerce(v) == IF IsInt(v) THEN Str(v) ELSE v
\* IntegerField.adapt: int(v); None stays None
IntCoerce(v) == IF v = NULL THEN NULL ELSE ToInt(v)

\* rowid SQLite gives to a row inserted without one
NextId(rows) == IF rows = {} THEN 1
                ELSE 1 + (CHOOSE m \in {r.id : r \in rows} : \A r \in rows : r.id <= m)

\* classes of scripts/Utils/models that define create_or_update
HasCreateOrUpdate(model) ==
    model \in {"User", "BearNotification", "BearNotificationEmbed", "BackupPassword"}

\* BaseModel.save: stamps updated_at, then writes the row
save(row, now) == [row EXCEPT !.updated_at = now]

UserIntCols == {"furnace_lv", "kid"}
UserTextCols == {"nickname", "stove_lv_content", "alliance"}
UserCols == UserIntCols \cup UserTextCols \cup {"created_at", "updated_at"}
UserNotNull == {"furnace_lv", "created_at", "updated_at"}
UserDefaults(fid, now) ==
    [fid |-> fid, nickname |-> NULL, furnace_lv |-> 0, kid |-> NULL,
     stove_lv_content |-> NULL, alliance |-> NULL,
     created_at |-> now, updated_at |-> now]

\* User.create_or_update(fid, **kw): get_or_create(fid=fid, defaults=kw), and
\* on a hit setattr of every keyword followed by save().  A keyword that is
\* not a column (last_updated) only becomes an attribute of the instance.
User_create_only(users, fid, kw, now) ==
    IF ~IntOk(fid) THEN Raise("ValueError", users)
    ELSE
      LET k == ToInt(fid)
          given == DOMAIN kw \cap UserCols
          row0 == UserDefaults(k, now)
          set == [c \in DOMAIN row0 |->
                    IF c \notin given THEN row0[c]
                    ELSE IF c \in UserIntCols THEN IntCoerce(kw[c])
                    ELSE IF c \in UserTextCols THEN TextCoerce(kw[c])
                    ELSE kw[c]]
      IN IF \E c \in given \cap UserIntCols : kw[c] # NULL /\ ~IntOk(kw[c])
            THEN Raise("ValueError", users)
         ELSE IF \E c \in UserNotNull : set[c] = NULL
            THEN Raise("IntegrityError", users)
         ELSE IF \E u \in users : u.fid = k
            THEN Raise("IntegrityError", users)
         ELSE Ok(users \cup {save(set, now)})

User_create_or_update(users, fid, kw, now) ==
    IF ~IntOk(fid) THEN Raise("ValueError", users)
    ELSE
      LET k == ToInt(fid)
          hit == {u \in users : u.fid = k}
          given == DOMAIN kw \cap UserCols
          row0 == IF hit # {} THEN CHOOSE u \in hit : TRUE ELSE UserDefaults(k, now)
          set == [c \in DOMAIN row0 |->
                    IF c \notin given THEN row0[c]
                    ELSE IF c \in UserIntCols THEN IntCoerce(kw[c])
                    ELSE IF c \in UserTextCols THEN TextCoerce(kw[c])
                    ELSE kw[c]]
      IN IF \E c \in given \cap UserIntCols : kw[c] # NULL /\ ~IntOk(kw[c])
            THEN Raise("ValueError", users)
         ELSE IF \E c \in UserNotNull : set[c] = NULL
            THEN Raise("IntegrityError", users)
         ELSE Ok((users \ hit) \cup {save(set, now)})

\* BearNotification.create_or_update(**kw): get_or_none(notification_id=...),
\* then setattr + save(), or create(**kw)
BearNotification_create_only(rows, kw, now) ==
    IF kw.notification_id # NULL /\ ~IntOk(kw.notification_id)
        THEN Raise("ValueError", rows)
    ELSE
      LET nid == IntCoerce(kw.notification_id)
          set == [id |-> NextId(rows), notification_id |-> nid,
                  notification_time |-> IntCoerce(kw.notification_time),
                  sent_at |-> kw.sent_at, created_at |-> now, updated_at |-> now]
      IN IF kw.notification_time # NULL /\ ~IntOk(kw.notification_time)
            THEN Raise("ValueError", rows)
         ELSE IF set.notification_id = NULL \/ set.notification_time = NULL
            THEN Raise("IntegrityError", rows)
         ELSE Ok(rows \cup {save(set, now)})

BearNotification_create_or_update(rows, kw, now) ==
    IF kw.notification_id # NULL /\ ~IntOk(kw.notification_id)
        THEN Raise("ValueError", rows)
    ELSE
      LET nid == IntCoerce(kw.notification_id)
          hits == {r \in rows : r.notification_id = nid}
          first == CHOOSE r \in hits : \A q \in hits : r.id <= q.id
          row0 == IF hits # {} THEN first
                  ELSE [id |-> NextId(rows), notification_id |-> nid,
                        notification_time |-> NULL, sent_at |-> now,
                        created_at |-> now, updated_at |-> now]
          set == [row0 EXCEPT !.notification_id = nid,
                              !.notification_time = IntCoerce(kw.notification_time),
                              !.sent_at = kw.sent_at]
      IN IF kw.notification_time # NULL /\ ~IntOk(kw.notification_time)
            THEN Raise("ValueError", rows)
         ELSE IF set.notification_id = NULL \/ set.notification_time = NULL
            THEN Raise("IntegrityError", rows)
         ELSE Ok((rows \ (IF hits # {} THEN {first} ELSE {})) \cup {save(set, now)})

BearNotificationEmbed_create_by_rowid(d, kw, now) ==
    LET rows == d["bear_notification_embeds"]
        parents == {n \in d["bear_notifications"] :
                        n.notification_id = IntCoerce(kw.notification)}
        ref == IF parents = {} THEN NULL ELSE (CHOOSE n \in parents : TRUE).id
        title == TextCoerce(kw.title)
        hits == {r \in rows : r.notification = ref /\ r.title = title}
        first == CHOOSE r \in hits : \A q \in hits : r.id <= q.id
        row0 == IF hits # {} THEN first
                ELSE [id |-> NextId(rows), notification |-> ref, title |-> title,
                      created_at |-> now, updated_at |-> now]
        set == [row0 EXCEPT !.notification = ref, !.title = title,
                            !.created_at = kw.created_at]
    IN IF parents = {}
          THEN Raise("IntegrityError", d)
       ELSE Ok([d EXCEPT !["bear_notification_embeds"] =
                   (rows \ (IF hits # {} THEN {first} ELSE {})) \cup {save(set, now)}])

\* BearNotificationEmbed.create_or_update(**kw): kw.notification is the
\* notification_id attribute of a BearNotification instance (the foreign key
\* targets BearNotification.notification_id)
BearNotificationEmbed_create_or_update(d, kw, now) ==
    LET rows == d["bear_notification_embeds"]
        ref == IntCoerce(kw.notification)
        title == TextCoerce(kw.title)
        hits == {r \in rows : r.notification = ref /\ r.title = title}
        first == CHOOSE r \in hits : \A q \in hits : r.id <= q.id
        row0 == IF hits # {} THEN first
                ELSE [id |-> NextId(rows), notification |-> ref, title |-> title,
                      created_at |-> now, updated_at |-> now]
        set == [row0 EXCEPT !.notification = ref, !.title = title,
                            !.created_at = kw.created_at]
    IN IF ~\E n \in d["bear_notifications"] : n.notification_id = ref
          THEN Raise("IntegrityError", d)
       ELSE Ok([d EXCEPT !["bear_notification_embeds"] =
                   (rows \ (IF hits # {} THEN {first} ELSE {})) \cup {save(set, now)}])

\* BackupPassword.create_or_update(**kw), keyed by discord_id
BackupPassword_create_or_update(rows, kw, now) ==
    LET key == TextCoerce(kw.discord_id)
        hits == {r \in rows : r.discord_id = key}
        row0 == IF hits # {} THEN CHOOSE r \in hits : TRUE
                ELSE [discord_id |-> key, backup_password |-> NULL,
                      created_at |-> now, updated_at |-> now]
        set == [row0 EXCEPT !.backup_password = TextCoerce(kw.backup_password),
                            !.created_at = kw.created_at]
    IN IF set.discord_id = NULL \/ set.backup_password = NULL
          THEN Raise("IntegrityError", rows)
       ELSE Ok((rows \ hits) \cup {save(set, now)})

-----------------------------------------------------------------------------
(* Connection pool *)

EmptyMap == [x \in {} |-> 0]
\* no callback in flight
NoTasks == [running |-> 0, owner |-> EmptyMap, task |-> <<>>]
NewHandle(conns, live) ==
    LET used == live \cup Range(conns) \cup {0}
    IN 1 + (CHOOSE m \in used : \A h \in used : h <= m)

\* MigrationButton._get_connection(db_path)
Button_get_connection_reopen(d, fs, conns, live, p) ==
    IF ~FileExists(d, fs, p)
        THEN [e |-> "DatabaseError", conns |-> conns, live |-> live, fs |-> fs, n |-> 0]
    ELSE LET h == NewHandle(conns, live)
         IN [e |-> "", conns |-> [q \in DOMAIN conns \cup {p} |-> IF q = p THEN h ELSE conns[q]],
             live |-> live \cup {h}, fs |-> fs, n |-> 1]

Button_get_connection(d, fs, conns, live, p) ==
    IF ~FileExists(d, fs, p)
        THEN [e |-> "DatabaseError", conns |-> conns, live |-> live, fs |-> fs, n |-> 0]
    ELSE IF p \notin DOMAIN conns
        THEN LET h == NewHandle(conns, live)
             IN [e |-> "", conns |-> [q \in DOMAIN conns \cup {p} |-> IF q = p THEN h ELSE conns[q]],
                 live |-> live \cup {h}, fs |-> fs, n |-> 1]
    ELSE [e |-> "", conns |-> conns, live |-> live, fs |-> fs, n |-> 0]

\* DatabaseMigration._get_connection(db_path): no existence check, and
\* sqlite3.connect creates the file it is asked to open
Dbm_get_connection(d, fs, conns, live, p) ==
    IF p \notin DOMAIN conns
        THEN LET h == NewHandle(conns, live)
             IN [e |-> "", conns |-> [q \in DOMAIN conns \cup {p} |-> IF q = p THEN h ELSE conns[q]],
                 live |-> live \cup {h}, fs |-> fs \cup {p}, n |-> 1]
    ELSE [e |-> "", conns |-> conns, live |-> live, fs |-> fs, n |-> 0]

\* _close_connections of both classes: close every cached connection, clear the cache
close_connections_keep(conns, live) == [conns |-> conns, live |-> live]

close_connections(conns, live) == [conns |-> EmptyMap, live |-> live \ Range(conns)]

-----------------------------------------------------------------------------
(* Report messages: [kind, what, n, err]; err is the text of the exception *)
(* a message quotes ("" when it quotes none)                                *)
(*   Migrated      "Migrated {n} {what}"                                   *)
(*   OkMigrated    "(check) Migrated {n} {what}"                           *)
(*   Warn          "(warning) {what} migration error: ..."                 *)
(*   Failed        "(cross) {what} migration failed: ..."                  *)
(*   Error         "Error during migration: {what}"                        *)
(*   NotFound      "Source database/directory not found"                   *)
(*   RolledBack    "(cross) Migration failed - Successfully rolled back changes" *)
(*   RollbackFailed "(cross) Migration failed - Rollback also failed"      *)

M(kind, what, n) == [kind |-> kind, what |-> what, n |-> n, err |-> ""]
ME(kind, what, err) == [kind |-> kind, what |-> what, n |-> 0, err |-> err]

\* str(e) of the exceptions the source files raise by themselves
NoSuchTable == "no such table"
FileNotFound == "Database file not found"
MissingColumns == "missing required columns"

\* the file of old_data that holds a table
FileOf(t) ==
    CASE t \in {"users"} -> "users.sqlite"
      [] t \in {"alliance_list", "alliancesettings"} -> "alliance.sqlite"
      [] t \in {"gift_codes", "user_giftcodes"} -> "giftcode.sqlite"
      [] t \in {"furnace_changes", "nickname_changes"} -> "changes.sqlite"
      [] t \in {"botsettings", "admin"} -> "settings.sqlite"
      [] t = "id_channel" -> "id_channel.sqlite"
      [] t \in {"bear_notifications", "bear_notification_embeds"} -> "beartime.sqlite"
      [] t = "backup_passwords" -> "backup.sqlite"

\* _validate_data(table_name, data), as its body computes it
validate_data(table_name, data) ==
    CASE table_name = "users" ->
            IsInt(data.fid) /\ IsStr(data.nickname) /\ IsInt(data.furnace_lv)
      [] table_name = "bear_notifications" ->
            IsInt(data.notification_id) /\ IsInt(data.notification_time)
      [] table_name = "backup_passwords" ->
            IsStr(data.discord_id) /\ IsStr(data.backup_password)
      [] OTHER -> TRUE

\* migrate_v4 tests `self._validate_data(...)` without awaiting it: the value
\* tested is the coroutine object, and an object is truthy
Unawaited(result) == TRUE

\* keywords each generation passes to User.create_or_update for a source row
UserKw(gen, r, aid) ==
    CASE gen = "v2" -> [nickname |-> r[2], furnace_lv |-> r[3], alliance |-> Str(aid)]
      [] gen = "v3" -> [nickname |-> r[2], furnace_lv |-> r[3], kid |-> r[4],
                        stove_lv_content |-> r[5], alliance |-> r[6]]
      [] gen = "v4" -> [nickname |-> r[2], furnace_lv |-> r[3], kid |-> r[4],
                        stove_lv_content |-> r[5], alliance |-> r[6],
                        last_updated |-> IF Len(r) > 6 THEN r[7] ELSE NULL,
                        created_at |-> IF Len(r) > 7 THEN r[8] ELSE NULL]

\* the loop over the fetched users rows, from row i on
RECURSIVE MigrateUserRows(_, _, _, _, _, _)
MigrateUserRows(gen, rows, i, users, aid, now) ==
    IF i > Len(rows) THEN Ok(users)
    ELSE LET r == rows[i]
             kw == UserKw(gen, r, aid)
             res == IF gen = "v4" /\ ~Unawaited(validate_data("users", [fid |-> r[1]] @@ kw))
                       THEN Ok(users)
                    ELSE User_create_or_update(users, r[1], kw, now)
         IN IF res.e # "" THEN res
            ELSE MigrateUserRows(gen, rows, i + 1, res.d, aid, now)

\* a family step returns [e, d, msgs]
Step(e, d, msgs) == [e |-> e, d |-> d, msgs |-> msgs]

MigrateUsers(gen, S, d, msgs, aid, now) ==
    IF S["users"].state = "absent" THEN Step("OperationalError", d, msgs)
    ELSE LET res == MigrateUserRows(gen, S["users"].rows, 1, d["users"], aid, now)
             d2 == [d EXCEPT !["users"] = res.d]
         IN IF res.e # "" THEN Step(res.e, d2, msgs)
            ELSE Step("", d2, Append(msgs,
                     M(IF gen = "v4" THEN "OkMigrated" ELSE "Migrated", "users",
                       Len(S["users"].rows))))

\* one table whose model class is asked for create_or_update on every row
MigrateTable(S, t, model, what, st) ==
    IF st.e # "" THEN st
    ELSE IF S[t].state = "absent" THEN Step("OperationalError", st.d, st.msgs)
    ELSE IF S[t].rows # <<>> /\ ~HasCreateOrUpdate(model)
        THEN Step("AttributeError", st.d, st.msgs)
    ELSE Step("", st.d, Append(st.msgs, M("Migrated", what, Len(S[t].rows))))

migrate_alliances(S, d, msgs) ==
    MigrateTable(S, "alliancesettings", "AllianceSettings", "alliance settings",
        MigrateTable(S, "alliance_list", "Alliance", "alliances", Step("", d, msgs)))

\* the text 'pending'
Pending == 163

\* keywords passed to GiftCode.create_or_update for a gift_codes row: the
\* inline loop of migrate_v2 and the loop of _migrate_giftcodes (v3, v4)
GiftCodeKw(gen, r) ==
    [giftcode |-> r[1], date |-> r[2],
     validation_status |-> IF gen = "v2" THEN Pending
                           ELSE IF Len(r) > 2 THEN r[3] ELSE Pending]

migrate_giftcodes(S, d, msgs) ==
    MigrateTable(S, "user_giftcodes", "UserGiftCode", "user gift codes",
        MigrateTable(S, "gift_codes", "GiftCode", "gift codes", Step("", d, msgs)))

migrate_changes(S, d, msgs) ==
    MigrateTable(S, "nickname_changes", "NicknameChange", "nickname changes",
        MigrateTable(S, "furnace_changes", "FurnaceChange", "furnace changes", Step("", d, msgs)))

migrate_settings(S, d, msgs) ==
    MigrateTable(S, "admin", "Admin", "admin settings",
        MigrateTable(S, "botsettings", "BotSettings", "bot settings", Step("", d, msgs)))

-----------------------------------------------------------------------------
(* _migrate_v4_specific_data: three blocks, each inside its own             *)
(* try / except DatabaseError / except Exception, so a block never raises.  *)
(* acq is the exception _get_connection raised inside the block, if any.    *)

\* Python truthiness of a column value
Truthy(v) == v # NULL /\ v # 0

\* `strptime(v) if len(row) > k and row[k] else datetime.now()`
StampRaises(r, k) == Len(r) > k /\ Truthy(r[k + 1]) /\ ~StampOk(r[k + 1])
StampOrNow(r, k, now) == IF Len(r) > k /\ Truthy(r[k + 1]) THEN strptime(r[k + 1]) ELSE now

migrate_id_channel_absent_raises(S, d, msgs, acq) ==
    LET t == S["id_channel"] IN
    IF acq # "" THEN Step("", d, Append(msgs, ME("Warn", "ID channel", FileNotFound)))
    ELSE IF t.state = "absent" THEN Step("OperationalError", d, msgs)
    ELSE IF t.state = "nocol" THEN Step("", d, Append(msgs, ME("Warn", "ID channel", MissingColumns)))
    ELSE IF t.rows # <<>> /\ ~HasCreateOrUpdate("GiftCodeChannel")
        THEN Step("", d, Append(msgs, ME("Failed", "ID channel", "AttributeError")))
    ELSE Step("", d, Append(msgs, M("OkMigrated", "ID channel mappings", Len(t.rows))))

migrate_id_channel(S, d, msgs, acq) ==
    LET t == S["id_channel"] IN
    IF acq # "" THEN Step("", d, Append(msgs, ME("Warn", "ID channel", FileNotFound)))
    ELSE IF t.state = "absent" THEN Step("", d, Append(msgs, ME("Failed", "ID channel", NoSuchTable)))
    ELSE IF t.state = "nocol" THEN Step("", d, Append(msgs, ME("Warn", "ID channel", MissingColumns)))
    ELSE IF t.rows # <<>> /\ ~HasCreateOrUpdate("GiftCodeChannel")
        THEN Step("", d, Append(msgs, ME("Failed", "ID channel", "AttributeError")))
    ELSE Step("", d, Append(msgs, M("OkMigrated", "ID channel mappings", Len(t.rows))))

\* the loop over bear_notifications; seen is migrated_notifications, as the
\* notification_id each returned instance carries
RECURSIVE MigrateNotifications(_, _, _, _, _)
MigrateNotifications(rows, i, tbl, seen, now) ==
    IF i > Len(rows) THEN [e |-> "", d |-> tbl, seen |-> seen]
    ELSE LET r == rows[i]
             res == BearNotification_create_or_update(tbl,
                        [notification_id |-> r[2], notification_time |-> r[3],
                         sent_at |-> StampOrNow(r, 3, now)], now)
         IN IF StampRaises(r, 3) THEN [e |-> "ValueError", d |-> tbl, seen |-> seen]
            ELSE IF res.e # "" THEN [e |-> res.e, d |-> tbl, seen |-> seen]
            ELSE MigrateNotifications(rows, i + 1, res.d, Append(seen, r[2]), now)

\* the loop over bear_notification_embeds; the parent is
\* next(n for n in migrated_notifications if n.notification_id == embed[1])
RECURSIVE MigrateEmbeds(_, _, _, _, _)
MigrateEmbeds(rows, i, d, seen, now) ==
    IF i > Len(rows) THEN Ok(d)
    ELSE LET r == rows[i]
             res == BearNotificationEmbed_create_or_update(d,
                        [notification |-> r[2], title |-> r[3],
                         created_at |-> StampOrNow(r, 3, now)], now)
         IN IF ~\E j \in DOMAIN seen : seen[j] = r[2] THEN Raise("StopIteration", d)
            ELSE IF StampRaises(r, 3) THEN Raise("ValueError", d)
            ELSE IF res.e # "" THEN Raise(res.e, d)
            ELSE MigrateEmbeds(rows, i + 1, res.d, seen, now)

migrate_beartime(S, d, msgs, acq, now) ==
    LET tn == S["bear_notifications"]
        te == S["bear_notification_embeds"]
        n == MigrateNotifications(tn.rows, 1, d["bear_notifications"], <<>>, now)
        d1 == [d EXCEPT !["bear_notifications"] = n.d]
        m1 == Append(msgs, M("OkMigrated", "bear notifications", Len(tn.rows)))
        em == MigrateEmbeds(te.rows, 1, d1, n.seen, now)
    IN IF acq # "" THEN Step("", d, Append(msgs, ME("Warn", "Bear time", FileNotFound)))
       ELSE IF tn.state = "absent" THEN Step("", d, Append(msgs, ME("Failed", "Bear time", NoSuchTable)))
       ELSE IF n.e # "" THEN Step("", d1, Append(msgs, ME("Failed", "Bear time", n.e)))
       ELSE IF te.state = "absent" THEN Step("", d1, Append(m1, ME("Failed", "Bear time", NoSuchTable)))
       ELSE IF em.e # "" THEN Step("", em.d, Append(m1, ME("Failed", "Bear time", em.e)))
       ELSE Step("", em.d, Append(m1, M("OkMigrated", "bear notification embeds", Len(te.rows))))

RECURSIVE MigrateBackups(_, _, _, _)
MigrateBackups(rows, i, tbl, now) ==
    IF i > Len(rows) THEN Ok(tbl)
    ELSE LET r == rows[i]
             res == BackupPassword_create_or_update(tbl,
                        [discord_id |-> r[1], backup_password |-> r[2],
                         created_at |-> StampOrNow(r, 2, now)], now)
         IN IF StampRaises(r, 2) THEN Raise("ValueError", tbl)
            ELSE IF res.e # "" THEN Raise(res.e, tbl)
            ELSE MigrateBackups(rows, i + 1, res.d, now)

migrate_backup_data(S, d, msgs, acq, now) ==
    LET t == S["backup_passwords"]
        b == MigrateBackups(t.rows, 1, d["backup_passwords"], now)
        d1 == [d EXCEPT !["backup_passwords"] = b.d]
    IN IF acq # "" THEN Step("", d, Append(msgs, ME("Warn", "Backup data", FileNotFound)))
       ELSE IF t.state = "absent" THEN Step("", d, Append(msgs, ME("Failed", "Backup data", NoSuchTable)))
       ELSE IF t.state = "nocol" THEN Step("", d, Append(msgs, ME("Warn", "Backup data", MissingColumns)))
       ELSE IF b.e # "" THEN Step("", d1, Append(msgs, ME("Failed", "Backup data", b.e)))
       ELSE Step("", d1, Append(msgs, M("OkMigrated", "backup passwords", Len(t.rows))))

-----------------------------------------------------------------------------
(* Backup / rollback manager *)

\* the three _backup_table calls of migrate_v4, in order; rollback_data keeps
\* its keys in this (first-insertion) order
SnapshotOrder == <<"users", "bear_notifications", "backup_passwords">>

\* _backup_table: model_class.select() raises when the table does not exist
RECURSIVE backup_tables(_, _, _, _)
backup_tables(i, rd, d, nt) ==
    IF i > Len(SnapshotOrder) THEN [e |-> "", rd |-> rd]
    ELSE LET t == SnapshotOrder[i] IN
         IF t \in nt THEN [e |-> "OperationalError", rd |-> rd]
         ELSE backup_tables(i + 1,
                  [k \in DOMAIN rd \cup {t} |-> IF k = t THEN d[t] ELSE rd[k]], d, nt)

\* DELETE of every row of a table is refused while a row of another table
\* references one of them (FurnaceChange.fid -> User.fid,
\* BearNotificationEmbed.notification -> BearNotification.notification_id)
DeleteBlocked(t, d) ==
    CASE t = "users" ->
            \E c \in d["furnace_changes"] : \E u \in d["users"] : u.fid = c.fid
      [] t = "bear_notifications" ->
            \E c \in d["bear_notification_embeds"] :
                \E n \in d["bear_notifications"] : n.notification_id = c.notification
      [] OTHER -> FALSE

\* the loop of _rollback over rollback_data.items()
RECURSIVE restore_tables(_, _, _, _, _)
restore_tables(i, rd, d, nt, now) ==
    IF i > Len(SnapshotOrder) THEN Ok(d)
    ELSE LET t == SnapshotOrder[i] IN
         IF t \notin DOMAIN rd THEN restore_tables(i + 1, rd, d, nt, now)
         ELSE IF t \in nt THEN Raise("OperationalError", d)
         ELSE IF DeleteBlocked(t, d) THEN Raise("IntegrityError", d)
         ELSE restore_tables(i + 1, rd,
                  [d EXCEPT ![t] = {save(r, now) : r \in rd[t]}], nt, now)

\* _rollback: the loop inside db.atomic(); True when it completed, False (and
\* nothing changed) when it raised
rollback(rd, d, nt, now) ==
    LET r == restore_tables(1, rd, d, nt, now)
    IN IF r.e = "" THEN [ok |-> TRUE, e |-> "", d |-> r.d]
       ELSE [ok |-> FALSE, e |-> r.e, d |-> d]

-----------------------------------------------------------------------------
(* Initial states *)

Layouts == {"none", "unknown", "v2", "v3", "v4"}
LayoutFiles(layout) ==
    CASE layout = "v2" -> {v2_file}
      [] layout = "v3" -> v3_files
      [] layout = "v4" -> v4_files
      [] layout = "unknown" -> {"users.sqlite", "alliance.sqlite"}
      [] OTHER -> {}

NoTxn == [active |-> FALSE, snap |-> EmptyDest]

\* everything a freshly constructed MigrationButton and an idle engine hold
Idle ==
    /\ db_connections = EmptyMap /\ liveConns = {} /\ opened = 0 /\ acquired = {}
    /\ rollback_data = EmptyMap
    /\ version = "" /\ path = "" /\ alliance_id = 0
    /\ messages = <<>> /\ success = FALSE /\ outcome = "" /\ exc = ""
    /\ txn = NoTxn /\ clock = 0 /\ runs = 0 /\ hist = <<>>
    /\ restore = "none" /\ raised = FALSE /\ failedAt = ""
    /\ poolImpl = "button" /\ poolOps = 0 /\ conc = NoTasks

Init ==
    \E layout \in Layouts : \E items \in ItemSeqs(layout) : \E pre \in PreChoices :
        /\ dirExists = (layout # "none")
        /\ files = LayoutFiles(layout)
        /\ src = BuildSource(layout, items)
        /\ noTable = BuildNoTable(items)
        /\ dest = PreDest(pre)
        /\ before = PreDest(pre)
        /\ pc = "idle"
        /\ Idle

-----------------------------------------------------------------------------
(* A run: callback -> migrate_v2 / migrate_v3 / migrate_v4 *)

HistRec(v, bef, out, succ, msgs, d, rst) ==
    [version |-> v, outcome |-> out, success |-> succ, messages |-> msgs,
     before |-> bef, after |-> d, restore |-> rst, exc |-> exc, failedAt |-> failedAt]

\* the run is over: the report is (succ, msgs); closing says whether the exit
\* path runs the finally clause
Return(v, bef, out, succ, msgs, d, rst, closing) ==
    /\ pc' = "idle" /\ outcome' = out /\ success' = succ /\ messages' = msgs
    /\ dest' = d /\ restore' = rst /\ txn' = NoTxn
    /\ hist' = Append(hist, HistRec(v, bef, out, succ, msgs, d, rst))
    /\ LET c == IF closing THEN close_connections(db_connections, liveConns)
                ELSE [conns |-> db_connections, live |-> liveConns]
       IN db_connections' = c.conns /\ liveConns' = c.live

Callback_unknown_proceeds ==
    /\ pc = "idle" /\ runs < MaxRuns
    /\ LET det == detect_database_version(dirExists, files) IN
        /\ version' = det[1] /\ path' = det[2]
        /\ runs' = runs + 1 /\ clock' = clock + 1
        /\ before' = dest /\ opened' = 0 /\ acquired' = {}
        /\ raised' = FALSE /\ alliance_id' = 0
        /\ IF det[1] = "none"
              THEN /\ Return(det[1], dest, det[1], FALSE, <<>>, dest, "none", FALSE)
                   /\ UNCHANGED <<exc, failedAt>>
           ELSE IF det[1] = "v2" /\ dest["alliance_list"] = {}
              THEN /\ Return(det[1], dest, "no_alliance", FALSE, <<>>, dest, "none", FALSE)
                   /\ UNCHANGED <<exc, failedAt>>
           ELSE /\ pc' = IF det[1] = "v2" THEN "await" ELSE "entry"
                /\ outcome' = "running" /\ success' = FALSE /\ messages' = <<>>
                /\ restore' = "none" /\ exc' = "" /\ failedAt' = ""
                /\ UNCHANGED <<dest, txn, hist, db_connections, liveConns>>
    /\ UNCHANGED <<dirExists, files, src, noTable, rollback_data, poolImpl, poolOps, conc>>

Callback_txn_before_wait ==
    /\ pc = "idle" /\ runs < MaxRuns
    /\ LET det == detect_database_version(dirExists, files) IN
        /\ version' = det[1] /\ path' = det[2]
        /\ runs' = runs + 1 /\ clock' = clock + 1
        /\ before' = dest /\ opened' = 0 /\ acquired' = {}
        /\ raised' = FALSE /\ alliance_id' = 0
        /\ IF det[1] \in {"none", "unknown"}
              THEN /\ Return(det[1], dest, det[1], FALSE, <<>>, dest, "none", FALSE)
                   /\ UNCHANGED <<exc, failedAt>>
           ELSE IF det[1] = "v2" /\ dest["alliance_list"] = {}
              THEN /\ Return(det[1], dest, "no_alliance", FALSE, <<>>, dest, "none", FALSE)
                   /\ UNCHANGED <<exc, failedAt>>
           ELSE /\ pc' = IF det[1] = "v2" THEN "await" ELSE "entry"
                /\ outcome' = "running" /\ success' = FALSE /\ messages' = <<>>
                /\ restore' = "none" /\ exc' = "" /\ failedAt' = ""
                /\ txn' = [active |-> TRUE, snap |-> dest]
                /\ UNCHANGED <<dest, hist, db_connections, liveConns>>
    /\ UNCHANGED <<dirExists, files, src, noTable, rollback_data, poolImpl, poolOps, conc>>

\* callback, up to the point where it waits or calls migrate_vN
Callback ==
    /\ pc = "idle" /\ runs < MaxRuns
    /\ LET det == detect_database_version(dirExists, files) IN
        /\ version' = det[1] /\ path' = det[2]
        /\ runs' = runs + 1 /\ clock' = clock + 1
        /\ before' = dest /\ opened' = 0 /\ acquired' = {}
        /\ raised' = FALSE /\ alliance_id' = 0
        /\ IF det[1] \in {"none", "unknown"}
              THEN /\ Return(det[1], dest, det[1], FALSE, <<>>, dest, "none", FALSE)
                   /\ UNCHANGED <<exc, failedAt>>
           ELSE IF det[1] = "v2" /\ dest["alliance_list"] = {}
              THEN /\ Return(det[1], dest, "no_alliance", FALSE, <<>>, dest, "none", FALSE)
                   /\ UNCHANGED <<exc, failedAt>>
           ELSE /\ pc' = IF det[1] = "v2" THEN "await" ELSE "entry"
                /\ outcome' = "running" /\ success' = FALSE /\ messages' = <<>>
                /\ restore' = "none" /\ exc' = "" /\ failedAt' = ""
                /\ UNCHANGED <<dest, txn, hist, db_connections, liveConns>>
    /\ UNCHANGED <<dirExists, files, src, noTable, rollback_data, poolImpl, poolOps, conc>>

Select_unlisted(a) ==
    /\ pc = "await"
    /\ a \in 5..7
    /\ alliance_id' = a /\ pc' = "entry"
    /\ UNCHANGED <<dirExists, files, src, noTable, dest, db_connections, liveConns,
                   opened, acquired, rollback_data, version, path, messages, success,
                   outcome, exc, failedAt, txn, clock, runs, hist, before, restore, raised,
                   poolImpl, poolOps, conc>>

\* wait_for_component returned the operator's choice
Select(a) ==
    /\ pc = "await"
    /\ a \in {al.alliance_id : al \in dest["alliance_list"]}
    /\ alliance_id' = a /\ pc' = "entry"
    /\ UNCHANGED <<dirExists, files, src, noTable, dest, db_connections, liveConns,
                   opened, acquired, rollback_data, version, path, messages, success,
                   outcome, exc, failedAt, txn, clock, runs, hist, before, restore, raised,
                   poolImpl, poolOps, conc>>

\* wait_for_component timed out after 60 s
Timeout ==
    /\ pc = "await"
    /\ Return(version, before, "timeout", FALSE, <<>>, dest, "none", FALSE)
    /\ UNCHANGED <<dirExists, files, src, noTable, opened, acquired, rollback_data,
                   version, path, alliance_id, exc, failedAt, clock, runs, before, raised,
                   poolImpl, poolOps, conc>>

\* the operator removes old_data between detection and migration
EnvRemoveLegacyRoot ==
    /\ pc \in {"await", "entry"} /\ dirExists
    /\ dirExists' = FALSE /\ files' = {}
    /\ UNCHANGED <<src, noTable, dest, db_connections, liveConns, opened, acquired,
                   rollback_data, pc, version, path, alliance_id, messages, success,
                   outcome, exc, failedAt, txn, clock, runs, hist, before, restore, raised,
                   poolImpl, poolOps, conc>>

\* migrate_vN up to its first table family: the existence check, for v4 the
\* three _backup_table calls, and the entry of `with db.atomic()`
MigrateEntry ==
    /\ pc = "entry"
    /\ LET found == IF version = "v2" THEN FileExists(dirExists, files, v2_file)
                    ELSE dirExists
           b == IF version = "v4" THEN backup_tables(1, rollback_data, dest, noTable)
                ELSE [e |-> "", rd |-> rollback_data]
       IN IF ~found
             THEN /\ Return(version, before, "NotFound", FALSE, <<M("NotFound", "", 0)>>, dest, "none", FALSE)
                  /\ UNCHANGED <<exc, failedAt, rollback_data>>
          ELSE /\ rollback_data' = b.rd
               /\ exc' = b.e
               /\ failedAt' = IF b.e # "" THEN "backup" ELSE ""
               /\ pc' = IF b.e # "" THEN "except" ELSE "users"
               /\ txn' = IF b.e # "" THEN NoTxn ELSE [active |-> TRUE, snap |-> dest]
               /\ UNCHANGED <<dest, messages, success, outcome, hist, restore,
                              db_connections, liveConns>>
    /\ UNCHANGED <<dirExists, files, src, noTable, opened, acquired, version, path,
                   alliance_id, clock, runs, before, raised, poolImpl, poolOps, conc>>

\* the order of the table families of each generation
NextPc(gen, at) ==
    CASE at = "users" -> IF gen = "v2" THEN "giftcodes" ELSE "alliances"
      [] at = "alliances" -> "giftcodes"
      [] at = "giftcodes" -> IF gen = "v2" THEN "commit" ELSE "changes"
      [] at = "changes" -> "settings"
      [] at = "settings" -> IF gen = "v4" THEN "id_channel" ELSE "commit"
      [] at = "id_channel" -> "beartime"
      [] at = "beartime" -> "backupdata"
      [] at = "backupdata" -> "commit"

\* self._get_connection(file) as the current run calls it
Acquire(f) == Button_get_connection(dirExists, files, db_connections, liveConns, f)
NoAcquire == [e |-> "", conns |-> db_connections, live |-> liveConns, fs |-> files, n |-> 0]

\* a family step of the main try block: an exception of _get_connection or of
\* the family leaves the block
Advance(f, acq, st) ==
    /\ db_connections' = acq.conns /\ liveConns' = acq.live
    /\ opened' = opened + acq.n
    /\ acquired' = IF f = "" THEN acquired ELSE acquired \cup {f}
    /\ IF acq.e # ""
          THEN /\ pc' = "except" /\ exc' = acq.e /\ failedAt' = pc
               /\ UNCHANGED <<dest, messages>>
       ELSE /\ dest' = st.d /\ messages' = st.msgs /\ exc' = st.e
            /\ failedAt' = IF st.e # "" THEN pc ELSE ""
            /\ pc' = IF st.e # "" THEN "except" ELSE NextPc(version, pc)
    /\ UNCHANGED <<dirExists, files, src, noTable, rollback_data, version, path,
                   alliance_id, success, outcome, txn, clock, runs, hist, before,
                   restore, raised, poolImpl, poolOps, conc>>

StepUsers ==
    /\ pc = "users"
    /\ LET f == IF version = "v2" THEN v2_file ELSE FileOf("users")
       IN Advance(f, Acquire(f), MigrateUsers(version, src, dest, messages, alliance_id, clock))

StepAlliances ==
    /\ pc = "alliances"
    /\ Advance("alliance.sqlite", Acquire("alliance.sqlite"), migrate_alliances(src, dest, messages))

\* migrate_v2 reads gift_codes and user_giftcodes through the connection it
\* already holds; migrate_v3 / migrate_v4 acquire giftcode.sqlite
StepGiftcodes ==
    /\ pc = "giftcodes"
    /\ IF version = "v2"
          THEN Advance("", NoAcquire, migrate_giftcodes(src, dest, messages))
       ELSE Advance("giftcode.sqlite", Acquire("giftcode.sqlite"),
                    migrate_giftcodes(src, dest, messages))

StepChanges ==
    /\ pc = "changes"
    /\ Advance("changes.sqlite", Acquire("changes.sqlite"), migrate_changes(src, dest, messages))

StepSettings ==
    /\ pc = "settings"
    /\ Advance("settings.sqlite", Acquire("settings.sqlite"), migrate_settings(src, dest, messages))

\* a block of _migrate_v4_specific_data: _get_connection is called inside
\* the block's try, so its exception is handed to the block
StepIdChannel ==
    /\ pc = "id_channel"
    /\ LET acq == Acquire("id_channel.sqlite")
       IN Advance("id_channel.sqlite", [acq EXCEPT !.e = ""],
                  migrate_id_channel(src, dest, messages, acq.e))

StepBearTime ==
    /\ pc = "beartime"
    /\ LET acq == Acquire("beartime.sqlite")
       IN Advance("beartime.sqlite", [acq EXCEPT !.e = ""],
                  migrate_beartime(src, dest, messages, acq.e, clock))

StepBackupData ==
    /\ pc = "backupdata"
    /\ LET acq == Acquire("backup.sqlite")
       IN Advance("backup.sqlite", [acq EXCEPT !.e = ""],
                  migrate_backup_data(src, dest, messages, acq.e, clock))

\* db.atomic() exits normally, `return True, messages`, finally
Commit ==
    /\ pc = "commit"
    /\ Return(version, before, "Committed", TRUE, messages, dest, "none", TRUE)
    /\ UNCHANGED <<dirExists, files, src, noTable, opened, acquired, rollback_data,
                   version, path, alliance_id, exc, failedAt, clock, runs, before, raised,
                   poolImpl, poolOps, conc>>

\* `except Exception` catches every exception class the run can raise
ExceptionClasses == {"AttributeError", "ValueError", "IntegrityError", "OperationalError",
                     "DatabaseError", "StopIteration"}
Caught_only_database(e) == e = "DatabaseError"

Caught(e) == e \in ExceptionClasses

\* the message that reports the result of _rollback
RollbackMessage_swapped(ok) ==
    IF ok THEN M("RollbackFailed", "", 0) ELSE M("RolledBack", "", 0)

RollbackMessage(ok) ==
    IF ok THEN M("RolledBack", "", 0) ELSE M("RollbackFailed", "", 0)

\* the exception leaves `with db.atomic()` (which undoes the transaction's
\* writes), then the except clause, then finally
HandleException_retries ==
    /\ pc = "except"
    /\ pc' = "entry" /\ exc' = "" /\ failedAt' = ""
    /\ dest' = IF txn.active THEN txn.snap ELSE dest
    /\ txn' = NoTxn
    /\ LET c == close_connections(db_connections, liveConns)
       IN db_connections' = c.conns /\ liveConns' = c.live
    /\ UNCHANGED <<dirExists, files, src, noTable, opened, acquired, rollback_data,
                   version, path, alliance_id, messages, success, outcome, clock, runs,
                   hist, before, restore, raised, poolImpl, poolOps, conc>>

HandleException_keeps_progress ==
    /\ pc = "except"
    /\ LET d0 == IF txn.active THEN txn.snap ELSE dest
           rb == rollback(rollback_data, d0, noTable, clock)
       IN IF ~Caught(exc)
             THEN /\ raised' = TRUE
                  /\ Return(version, before, "Raised", FALSE, <<>>, d0, "none", TRUE)
          ELSE IF version = "v4"
             THEN /\ raised' = FALSE
                  /\ Return(version, before, IF rb.ok THEN "RolledBack" ELSE "Failed", FALSE,
                            Append(messages, RollbackMessage(rb.ok)), rb.d,
                            IF rb.e = "" THEN "completed" ELSE "raised", TRUE)
          ELSE /\ raised' = FALSE
               /\ Return(version, before, "Error", FALSE,
                         Append(messages, ME("Error", "", exc)), d0, "none", TRUE)
    /\ UNCHANGED <<dirExists, files, src, noTable, opened, acquired, rollback_data,
                   version, path, alliance_id, exc, failedAt, clock, runs, before,
                   poolImpl, poolOps, conc>>

HandleException ==
    /\ pc = "except"
    /\ LET d0 == IF txn.active THEN txn.snap ELSE dest
           rb == rollback(rollback_data, d0, noTable, clock)
       IN IF ~Caught(exc)
             THEN /\ raised' = TRUE
                  /\ Return(version, before, "Raised", FALSE, <<>>, d0, "none", TRUE)
          ELSE IF version = "v4"
             THEN /\ raised' = FALSE
                  /\ Return(version, before, IF rb.ok THEN "RolledBack" ELSE "Failed", FALSE,
                            Append(messages, RollbackMessage(rb.ok)), rb.d,
                            IF rb.e = "" THEN "completed" ELSE "raised", TRUE)
          ELSE /\ raised' = FALSE
               /\ Return(version, before, "Error", FALSE, <<ME("Error", "", exc)>>, d0, "none", TRUE)
    /\ UNCHANGED <<dirExists, files, src, noTable, opened, acquired, rollback_data,
                   version, path, alliance_id, exc, failedAt, clock, runs, before,
                   poolImpl, poolOps, conc>>

Next ==
    \/ Callback
    \/ \E a \in 0..99 : Select(a)
    \/ Timeout
    \/ EnvRemoveLegacyRoot
    \/ MigrateEntry
    \/ StepUsers
    \/ StepAlliances
    \/ StepGiftcodes
    \/ StepChanges
    \/ StepSettings
    \/ StepIdChannel
    \/ StepBearTime
    \/ StepBackupData
    \/ Commit
    \/ HandleException

Spec == Init /\ [][Next]_vars

-----------------------------------------------------------------------------
(* v4 runs over sources whose extension tables hold up to MaxExtItems rows  *)
(* (timed notifications, their details, backup credentials), next to a      *)
(* users table with at most a well-formed and a six-column row.              *)

ExtItems ==
    {<<"row", t, k>> : t \in {"bear_notifications", "bear_notification_embeds"}, k \in 1..3}
    \cup {<<"row", "backup_passwords", 1>>, <<"row", "users", 1>>, <<"row", "users", 2>>}

ExtInit ==
    \E n \in 0..MaxExtItems : \E items \in [1..n -> ExtItems] :
    \E pre \in {{}, {"bear_notifications"}} :
        /\ dirExists = TRUE
        /\ files = LayoutFiles("v4")
        /\ src = BuildSource("v4", items)
        /\ noTable = {}
        /\ dest = PreDest(pre)
        /\ before = PreDest(pre)
        /\ pc = "idle"
        /\ Idle

ExtNext ==
    \/ Callback
    \/ MigrateEntry
    \/ StepUsers
    \/ StepAlliances
    \/ StepGiftcodes
    \/ StepChanges
    \/ StepSettings
    \/ StepIdChannel
    \/ StepBearTime
    \/ StepBackupData
    \/ Commit
    \/ HandleException

ExtSpec == ExtInit /\ [][ExtNext]_vars

-----------------------------------------------------------------------------
(* Runs over the generations that may wait for a selection: a v2 or v3    *)
(* source and a destination holding up to two alliances                   *)

SecondAlliance == [alliance_id |-> 6, name |-> 154, discord_server_id |-> NULL,
                   created_at |-> 0, updated_at |-> 0]

SelInit ==
    \E layout \in {"v2", "v3"} : \E items \in ItemSeqs(layout) :
    \E als \in SUBSET {PreAlliance, SecondAlliance} : \E us \in {{}, {PreUser}} :
        /\ dirExists = TRUE
        /\ files = LayoutFiles(layout)
        /\ src = BuildSource(layout, items)
        /\ noTable = {}
        /\ dest = [EmptyDest EXCEPT !["alliance_list"] = als, !["users"] = us]
        /\ before = dest
        /\ pc = "idle"
        /\ Idle

SelNext ==
    \/ Callback
    \/ \E a \in 0..99 : Select(a)
    \/ Timeout
    \/ MigrateEntry
    \/ StepUsers
    \/ StepAlliances
    \/ StepGiftcodes
    \/ StepChanges
    \/ StepSettings
    \/ Commit
    \/ HandleException

SelSpec == SelInit /\ [][SelNext]_vars

-----------------------------------------------------------------------------

(* Callbacks in flight on one MigrationButton instance.  The event loop   *)
(* runs one coroutine at a time and switches only where a coroutine       *)
(* awaits the gateway (ctx.defer, ctx.send, wait_for_component, ctx.edit); *)
(* the coroutines awaited inside migrate_vN contain no await of their own *)
(* and run to their end.  conc.running is the task that holds the loop (0 *)
(* when every task is suspended), conc.owner maps a connection handle to  *)
(* the task whose _get_connection call opened it.                         *)

\* the source files a run acquires, in order; migrate_v2 reads users, then
\* gift codes and user gift codes, through the one connection it acquired
ConcFiles(gen) ==
    CASE gen = "v2" -> <<v2_file, v2_file>>
      [] gen = "v3" -> <<"users.sqlite", "alliance.sqlite", "giftcode.sqlite",
                         "changes.sqlite", "settings.sqlite">>
      [] gen = "v4" -> <<"users.sqlite", "alliance.sqlite", "giftcode.sqlite",
                         "changes.sqlite", "settings.sqlite", "id_channel.sqlite",
                         "beartime.sqlite", "backup.sqlite">>
      [] OTHER -> <<>>

IdleTask == [pc |-> "idle", version |-> "", i |-> 0, held |-> 0, n |-> 0,
             foreign |-> FALSE, stale |-> FALSE, stole |-> FALSE, stmts |-> {}]

ConcInit ==
    \E layout \in {"v2", "v3", "v4"} : \E als \in SUBSET {PreAlliance} :
        /\ dirExists = TRUE
        /\ files = LayoutFiles(layout)
        /\ src = BuildSource(layout, <<>>) /\ noTable = {}
        /\ dest = [EmptyDest EXCEPT !["alliance_list"] = als]
        /\ before = dest
        /\ pc = "conc"
        /\ db_connections = EmptyMap /\ liveConns = {} /\ opened = 0 /\ acquired = {}
        /\ rollback_data = EmptyMap
        /\ version = "" /\ path = "" /\ alliance_id = 0
        /\ messages = <<>> /\ success = FALSE /\ outcome = "" /\ exc = ""
        /\ txn = NoTxn /\ clock = 0 /\ runs = 0 /\ hist = <<>>
        /\ restore = "none" /\ raised = FALSE /\ failedAt = ""
        /\ poolImpl = "button" /\ poolOps = 0
        /\ conc = [running |-> 0, owner |-> EmptyMap,
                   task |-> [t \in 1..MaxTasks |-> IdleTask]]

ConcFrame ==
    UNCHANGED <<dirExists, files, src, noTable, dest, opened, acquired, rollback_data,
                pc, version, path, alliance_id, messages, success, outcome, exc, txn,
                clock, runs, hist, before, restore, raised, failedAt, poolImpl, poolOps>>

\* callback from ctx.defer to its first await after detection: the report of
\* none / unknown / no alliance, the wait for a selection (v2), or the call
\* of migrate_v3 / migrate_v4
ConcCallback(t) ==
    /\ pc = "conc" /\ conc.running = 0 /\ conc.task[t].pc = "idle"
    /\ LET v == detect_database_version(dirExists, files)[1]
           T == [conc.task[t] EXCEPT !.version = v]
       IN conc' =
            IF v \in {"none", "unknown"} \/ (v = "v2" /\ dest["alliance_list"] = {})
               THEN [conc EXCEPT !.task[t] = [T EXCEPT !.pc = "done"]]
            ELSE IF v = "v2"
               THEN [conc EXCEPT !.task[t] = [T EXCEPT !.pc = "await"]]
            ELSE [conc EXCEPT !.running = t,
                              !.task[t] = [T EXCEPT !.pc = "migrate", !.i = 1]]
    /\ UNCHANGED <<db_connections, liveConns>>
    /\ ConcFrame

\* wait_for_component returned: migrate_v2 is entered
ConcSelect(t) ==
    /\ pc = "conc" /\ conc.running = 0 /\ conc.task[t].pc = "await"
    /\ conc' = [conc EXCEPT !.running = t, !.task[t].pc = "migrate", !.task[t].i = 1]
    /\ UNCHANGED <<db_connections, liveConns>>
    /\ ConcFrame

ConcTimeout(t) ==
    /\ pc = "conc" /\ conc.running = 0 /\ conc.task[t].pc = "await"
    /\ conc' = [conc EXCEPT !.task[t].pc = "done"]
    /\ UNCHANGED <<db_connections, liveConns>>
    /\ ConcFrame

\* one family of migrate_vN: _get_connection (or, in migrate_v2 after the
\* users, the connection already held), the PRAGMA of a new connection and
\* the SELECTs of the family; the family may raise, which leaves the try
\* block.  run is the task that holds the loop afterwards.
ConcStepTo(t, run) ==
    /\ pc = "conc" /\ conc.running \in {0, t} /\ conc.task[t].pc = "migrate"
    /\ LET T == conc.task[t]
           fs == ConcFiles(T.version)
           f == fs[T.i]
           reuse == T.version = "v2" /\ T.i > 1
           acq == IF reuse THEN NoAcquire
                  ELSE Button_get_connection(dirExists, files, db_connections, liveConns, f)
           h == IF reuse THEN T.held ELSE IF acq.e = "" THEN acq.conns[f] ELSE 0
           own == IF acq.n = 1
                     THEN [q \in DOMAIN conc.owner \cup {h} |->
                              IF q = h THEN t ELSE conc.owner[q]]
                  ELSE conc.owner
       IN \E fail \in BOOLEAN :
            /\ db_connections' = acq.conns /\ liveConns' = acq.live
            /\ conc' = [running |-> run, owner |-> own,
                        task |-> [conc.task EXCEPT ![t] =
                            IF acq.e # "" THEN [T EXCEPT !.pc = "finally"]
                            ELSE [T EXCEPT
                                    !.held = h, !.n = T.n + acq.n,
                                    !.foreign = T.foreign \/ own[h] # t,
                                    !.stale = T.stale \/ h \notin acq.live,
                                    !.stmts = T.stmts \cup {"SELECT"} \cup
                                              (IF acq.n = 1 THEN {"PRAGMA"} ELSE {}),
                                    !.i = T.i + 1,
                                    !.pc = IF fail \/ T.i = Len(fs)
                                              THEN "finally" ELSE "migrate"]]]
    /\ ConcFrame

ConcStep_yields(t) == ConcStepTo(t, 0)

ConcStep(t) == ConcStepTo(t, t)

\* the finally clause of migrate_vN, then callback up to its last await
ConcFinally(t) ==
    /\ pc = "conc" /\ conc.running \in {0, t} /\ conc.task[t].pc = "finally"
    /\ LET c == close_connections(db_connections, liveConns)
           stolen == \E h \in Range(db_connections) :
                        /\ conc.owner[h] # t
                        /\ conc.task[conc.owner[h]].pc \in {"migrate", "finally"}
       IN /\ db_connections' = c.conns /\ liveConns' = c.live
          /\ conc' = [conc EXCEPT !.running = 0, !.task[t].pc = "done",
                                  !.task[t].stole = stolen]
    /\ ConcFrame

ConcNext ==
    \E t \in 1..MaxTasks :
        \/ ConcCallback(t)
        \/ ConcSelect(t)
        \/ ConcTimeout(t)
        \/ ConcStep(t)
        \/ ConcFinally(t)

ConcSpec == ConcInit /\ [][ConcNext]_vars

-----------------------------------------------------------------------------

(* Runs under the scheduling the code gives them: everything between the  *)
(* call of migrate_vN and its return is synchronous, and a waiting v2 run *)
(* is resumed by the operator's selection or by the 60 s timeout.  The    *)
(* operator's click is not forced.                                        *)

LiveInit ==
    \E layout \in Layouts :
    \E items \in {<<>>} \cup {<<it>> : it \in {x \in Items(layout) : ItemOk(x)}} :
    \E pre \in PreChoices :
        /\ dirExists = (layout # "none")
        /\ files = LayoutFiles(layout)
        /\ src = BuildSource(layout, items)
        /\ noTable = BuildNoTable(items)
        /\ dest = PreDest(pre)
        /\ before = PreDest(pre)
        /\ pc = "idle"
        /\ Idle

Progress ==
    \/ \E a \in 0..99 : Select(a)
    \/ Timeout
    \/ MigrateEntry
    \/ StepUsers
    \/ StepAlliances
    \/ StepGiftcodes
    \/ StepChanges
    \/ StepSettings
    \/ StepIdChannel
    \/ StepBearTime
    \/ StepBackupData
    \/ Commit
    \/ HandleException

LiveSpec == LiveInit /\ [][Next]_vars /\ WF_vars(Progress)

-----------------------------------------------------------------------------

(* v4 runs on one MigrationButton whose snapshot step may fail for a      *)
(* reason that does not last (model_class.select() raising                *)
(* OperationalError on a busy or unreadable database file)                *)

\* _backup_table called for the first k - 1 kinds; the k-th call raises
snapshot_until(k, rd, d) ==
    LET done == {SnapshotOrder[j] : j \in 1..(k - 1)}
    IN [t \in DOMAIN rd \cup done |-> IF t \in done THEN d[t] ELSE rd[t]]

SnapInit ==
    \E items \in {<<>>} \cup {<<it>> : it \in {x \in Items("v4") : ItemOk(x) /\ x[1] = "row"}} :
    \E pre \in PreChoices :
        /\ dirExists = TRUE
        /\ files = LayoutFiles("v4")
        /\ src = BuildSource("v4", items)
        /\ noTable = {}
        /\ dest = PreDest(pre)
        /\ before = PreDest(pre)
        /\ pc = "idle"
        /\ Idle

\* migrate_v4 up to its first table family, with a snapshot step that may raise
SnapEntry ==
    /\ pc = "entry"
    /\ \E k \in 0..Len(SnapshotOrder) :
         LET b == IF k = 0 THEN backup_tables(1, rollback_data, dest, noTable)
                  ELSE [e |-> "OperationalError", rd |-> snapshot_until(k, rollback_data, dest)]
         IN IF ~dirExists
               THEN /\ Return(version, before, "NotFound", FALSE, <<M("NotFound", "", 0)>>,
                              dest, "none", FALSE)
                    /\ UNCHANGED <<exc, failedAt, rollback_data>>
            ELSE /\ rollback_data' = b.rd
                 /\ exc' = b.e
                 /\ failedAt' = IF b.e # "" THEN "backup" ELSE ""
                 /\ pc' = IF b.e # "" THEN "except" ELSE "users"
                 /\ txn' = IF b.e # "" THEN NoTxn ELSE [active |-> TRUE, snap |-> dest]
                 /\ UNCHANGED <<dest, messages, success, outcome, hist, restore,
                                db_connections, liveConns>>
    /\ UNCHANGED <<dirExists, files, src, noTable, opened, acquired, version, path,
                   alliance_id, clock, runs, before, raised, poolImpl, poolOps, conc>>

SnapNext ==
    \/ Callback
    \/ SnapEntry
    \/ StepUsers
    \/ StepAlliances
    \/ StepGiftcodes
    \/ StepChanges
    \/ StepSettings
    \/ StepIdChannel
    \/ StepBearTime
    \/ StepBackupData
    \/ Commit
    \/ HandleException

SnapSpec == SnapInit /\ [][SnapNext]_vars

-----------------------------------------------------------------------------

(* The version detector on its own: every file set under the legacy root *)

DetectInit ==
    /\ dirExists \in BOOLEAN
    /\ files \in SUBSET AllFiles
    /\ (~dirExists => files = {})
    /\ src = BuildSource("none", <<>>) /\ noTable = {}
    /\ dest = EmptyDest /\ before = EmptyDest
    /\ pc = "idle"
    /\ Idle

DetectOnly ==
    /\ pc = "idle"
    /\ LET det == detect_database_version(dirExists, files)
       IN version' = det[1] /\ path' = det[2]
    /\ pc' = "detected"
    /\ UNCHANGED <<dirExists, files, src, noTable, dest, db_connections, liveConns,
                   opened, acquired, rollback_data, alliance_id, messages, success,
                   outcome, exc, txn, clock, runs, hist, before, restore, raised,
                   failedAt, poolImpl, poolOps, conc>>

DetectSpec == DetectInit /\ [][DetectOnly]_vars

-----------------------------------------------------------------------------
(* The connection pools on their own: any sequence of _get_connection and  *)
(* _close_connections calls on MigrationButton ("button") and on           *)
(* DatabaseMigration ("dbm").  opened and acquired count since the cache   *)
(* was last cleared.                                                       *)

PoolPaths == {"users.sqlite", "alliance.sqlite", "changes.sqlite"}

PoolInit ==
    /\ dirExists = TRUE
    /\ files \in SUBSET PoolPaths
    /\ src = BuildSource("none", <<>>) /\ noTable = {}
    /\ dest = EmptyDest /\ before = EmptyDest
    /\ pc = "pool"
    /\ db_connections = EmptyMap /\ liveConns = {} /\ opened = 0 /\ acquired = {}
    /\ rollback_data = EmptyMap
    /\ version = "" /\ path = "" /\ alliance_id = 0
    /\ messages = <<>> /\ success = FALSE /\ outcome = "" /\ exc = ""
    /\ txn = NoTxn /\ clock = 0 /\ runs = 0 /\ hist = <<>>
    /\ restore = "none" /\ raised = FALSE /\ failedAt = ""
    /\ poolImpl \in {"button", "dbm"} /\ poolOps = 0 /\ conc = NoTasks

PoolAcquire(p) ==
    /\ pc = "pool" /\ poolOps < MaxPoolOps
    /\ LET r == IF poolImpl = "button"
                THEN Button_get_connection(dirExists, files, db_connections, liveConns, p)
                ELSE Dbm_get_connection(dirExists, files, db_connections, liveConns, p)
       IN /\ db_connections' = r.conns /\ liveConns' = r.live /\ files' = r.fs
          /\ opened' = opened + r.n
          /\ acquired' = IF r.e = "" THEN acquired \cup {p} ELSE acquired
          /\ exc' = r.e
    /\ path' = p
    /\ outcome' = IF p \in DOMAIN db_connections THEN "hit" ELSE "miss"
    /\ poolOps' = poolOps + 1
    /\ UNCHANGED <<dirExists, src, noTable, dest, rollback_data, pc, version,
                   alliance_id, messages, success, txn, clock, runs, hist,
                   before, restore, raised, failedAt, poolImpl, conc>>

PoolClose ==
    /\ pc = "pool" /\ db_connections # EmptyMap
    /\ LET c == close_connections(db_connections, liveConns)
       IN db_connections' = c.conns /\ liveConns' = c.live
    /\ opened' = 0 /\ acquired' = {} /\ exc' = "" /\ path' = "" /\ outcome' = ""
    /\ UNCHANGED <<dirExists, files, src, noTable, dest, rollback_data, pc, version,
                   alliance_id, messages, success, txn, clock, runs,
                   hist, before, restore, raised, failedAt, poolImpl, poolOps, conc>>

PoolNext == (\E p \in PoolPaths : PoolAcquire(p)) \/ PoolClose

PoolSpec == PoolInit /\ [][PoolNext]_vars

-----------------------------------------------------------------------------
(* DatabaseMigration (scripts/Utils/models/migration.py) on its own: one    *)
(* call of migrate_v2 / migrate_v3 / migrate_v4.  migrate_v2 and migrate_v4 *)
(* read every table through the one connection to source_path, migrate_v3   *)
(* acquires one file per family.  The sources enumerated hold no            *)
(* gift_code_control and no gift_code_channels table.                       *)

\* the order in which each migrate_vN of DatabaseMigration calls its families
DbmNextPc(gen, at) ==
    CASE at = "users" -> IF gen = "v2" THEN "changes" ELSE "alliances"
      [] at = "alliances" -> "giftcodes"
      [] at = "giftcodes" -> IF gen = "v2" THEN "commit" ELSE "changes"
      [] at = "changes" -> IF gen = "v2" THEN "giftcodes" ELSE "settings"
      [] at = "settings" -> IF gen = "v4" THEN "v4tables" ELSE "commit"
      [] at = "v4tables" -> "commit"

\* the path the family at `at` passes to _get_connection
DbmFile(gen, at) ==
    IF gen # "v3" THEN v2_file
    ELSE CASE at = "users" -> "users.sqlite"
           [] at = "alliances" -> "alliance.sqlite"
           [] at = "giftcodes" -> "giftcode.sqlite"
           [] at = "changes" -> "changes.sqlite"
           [] at = "settings" -> "settings.sqlite"

\* the users loop of DatabaseMigration.migrate_vN and its message
Dbm_migrate_users(gen, S, d, msgs, aid, now) ==
    IF S["users"].state = "absent" THEN Step("OperationalError", d, msgs)
    ELSE LET res == MigrateUserRows(gen, S["users"].rows, 1, d["users"], aid, now)
             d2 == [d EXCEPT !["users"] = res.d]
         IN IF res.e # "" THEN Step(res.e, d2, msgs)
            ELSE Step("", d2, Append(msgs, M("Migrated", "users", Len(S["users"].rows))))

\* the family at `at`, as DatabaseMigration.migrate_vN runs it
DbmFamily(gen, at, S, d, msgs, aid, now) ==
    CASE at = "users" -> Dbm_migrate_users(gen, S, d, msgs, aid, now)
      [] at = "alliances" -> migrate_alliances(S, d, msgs)
      [] at = "giftcodes" ->
            IF gen = "v4"
               THEN MigrateTable(S, "gift_codes", "GiftCode", "gift codes", Step("", d, msgs))
            ELSE migrate_giftcodes(S, d, msgs)
      [] at = "changes" -> migrate_changes(S, d, msgs)
      [] at = "settings" -> migrate_settings(S, d, msgs)
      [] at = "v4tables" -> Step("", d, msgs)

DbmInit ==
    \E gen \in {"v2", "v3", "v4"} : \E items \in ItemSeqs("v3") :
    \E pre \in {{}, {"users"}} : \E gone \in {{}, {"changes.sqlite"}, {v2_file}} :
        /\ dirExists = TRUE
        /\ files = (IF gen = "v3" THEN v3_files ELSE {v2_file}) \ gone
        /\ src = BuildSource("v3", items) /\ noTable = {}
        /\ dest = PreDest(pre) /\ before = PreDest(pre)
        /\ db_connections = EmptyMap /\ liveConns = {} /\ opened = 0 /\ acquired = {}
        /\ rollback_data = EmptyMap
        /\ version = gen /\ path = (IF gen = "v3" THEN base_path ELSE v2_file)
        /\ alliance_id = 5
        /\ messages = <<>> /\ success = FALSE /\ outcome = "running" /\ exc = ""
        /\ txn = NoTxn /\ clock = 1 /\ runs = 1 /\ hist = <<>>
        /\ restore = "none" /\ raised = FALSE /\ failedAt = ""
        /\ poolImpl = "dbm" /\ poolOps = 0 /\ conc = NoTasks
        /\ pc = "entry"

\* the existence check of migrate_vN and the entry of `with db.atomic()`
DbmEntry ==
    /\ pc = "entry"
    /\ LET found == IF version = "v3" THEN dirExists ELSE FileExists(dirExists, files, path)
       IN IF ~found
             THEN Return(version, before, "NotFound", FALSE, <<M("NotFound", "", 0)>>,
                         dest, "none", FALSE)
          ELSE /\ pc' = "users" /\ txn' = [active |-> TRUE, snap |-> dest]
               /\ UNCHANGED <<dest, messages, success, outcome, hist, restore,
                              db_connections, liveConns>>
    /\ UNCHANGED <<dirExists, files, src, noTable, opened, acquired, rollback_data,
                   version, path, alliance_id, exc, failedAt, clock, runs, before,
                   raised, poolImpl, poolOps, conc>>

\* one family: _get_connection where the code calls it, then the family's
\* reads and upserts; a file that sqlite3.connect has just created holds no
\* table
DbmStep ==
    /\ pc \in {"users", "alliances", "giftcodes", "changes", "settings", "v4tables"}
    /\ LET f == DbmFile(version, pc)
           acquires == version = "v3" \/ pc = "users"
           acq == IF acquires
                     THEN Dbm_get_connection(dirExists, files, db_connections, liveConns, f)
                  ELSE [e |-> "", conns |-> db_connections, live |-> liveConns,
                        fs |-> files, n |-> 0]
           st == IF f \notin files THEN Step("OperationalError", dest, messages)
                 ELSE DbmFamily(version, pc, src, dest, messages, alliance_id, clock)
       IN /\ db_connections' = acq.conns /\ liveConns' = acq.live /\ files' = acq.fs
          /\ opened' = opened + acq.n
          /\ acquired' = IF acquires THEN acquired \cup {f} ELSE acquired
          /\ dest' = st.d /\ messages' = st.msgs /\ exc' = st.e
          /\ failedAt' = IF st.e # "" THEN pc ELSE ""
          /\ pc' = IF st.e # "" THEN "except" ELSE DbmNextPc(version, pc)
    /\ UNCHANGED <<dirExists, src, noTable, rollback_data, version, path, alliance_id,
                   success, outcome, txn, clock, runs, hist, before, restore, raised,
                   poolImpl, poolOps, conc>>

\* the end of the with block: commit, `return True, messages`, finally
DbmCommit ==
    /\ pc = "commit"
    /\ Return(version, before, "Committed", TRUE, messages, dest, "none", TRUE)
    /\ UNCHANGED <<dirExists, files, src, noTable, opened, acquired, rollback_data,
                   version, path, alliance_id, exc, failedAt, clock, runs, before,
                   raised, poolImpl, poolOps, conc>>

\* `except Exception`: the transaction is rolled back by db.atomic(), the
\* report is the single error message, finally
DbmExcept ==
    /\ pc = "except"
    /\ Return(version, before, "Error", FALSE, <<ME("Error", "", exc)>>, txn.snap,
              "none", TRUE)
    /\ UNCHANGED <<dirExists, files, src, noTable, opened, acquired, rollback_data,
                   version, path, alliance_id, exc, failedAt, clock, runs, before,
                   raised, poolImpl, poolOps, conc>>

DbmNext == DbmEntry \/ DbmStep \/ DbmCommit \/ DbmExcept

DbmSpec == DbmInit /\ [][DbmNext]_vars

-----------------------------------------------------------------------------
(* The two implementations side by side: DatabaseMigration.migrate_v2 /    *)
(* migrate_v3 runs first and its report is kept as hist[1]; the           *)
(* destination is put back to its state at the start, and                 *)
(* MigrationButton.migrate_v2 / migrate_v3 runs over the same source at   *)
(* the same clock reading, its report being hist[2].                      *)

EqInit ==
    \E gen \in {"v2", "v3"} : \E items \in ItemSeqs("v3") : \E pre \in {{}, {"users"}} :
        /\ dirExists = TRUE
        /\ files = (IF gen = "v3" THEN v3_files ELSE {v2_file})
        /\ src = BuildSource("v3", items) /\ noTable = {}
        /\ dest = PreDest(pre) /\ before = PreDest(pre)
        /\ db_connections = EmptyMap /\ liveConns = {} /\ opened = 0 /\ acquired = {}
        /\ rollback_data = EmptyMap
        /\ version = gen /\ path = (IF gen = "v3" THEN base_path ELSE v2_file)
        /\ alliance_id = 5
        /\ messages = <<>> /\ success = FALSE /\ outcome = "running" /\ exc = ""
        /\ txn = NoTxn /\ clock = 1 /\ runs = 1 /\ hist = <<>>
        /\ restore = "none" /\ raised = FALSE /\ failedAt = ""
        /\ poolImpl = "dbm" /\ poolOps = 0 /\ conc = NoTasks
        /\ pc = "entry"

\* the second implementation is started from the same destination state
EqSwitch ==
    /\ pc = "idle" /\ poolImpl = "dbm" /\ Len(hist) = 1
    /\ poolImpl' = "button" /\ pc' = "entry"
    /\ dest' = before
    /\ messages' = <<>> /\ success' = FALSE /\ outcome' = "running"
    /\ exc' = "" /\ failedAt' = "" /\ txn' = NoTxn /\ opened' = 0 /\ acquired' = {}
    /\ UNCHANGED <<dirExists, files, src, noTable, db_connections, liveConns,
                   rollback_data, version, path, alliance_id, clock, runs, hist, before,
                   restore, raised, poolOps, conc>>

EqButton ==
    \/ MigrateEntry
    \/ StepUsers
    \/ StepAlliances
    \/ StepGiftcodes
    \/ StepChanges
    \/ StepSettings
    \/ Commit
    \/ HandleException

EqNext ==
    \/ (poolImpl = "dbm" /\ DbmNext)
    \/ EqSwitch
    \/ (poolImpl = "button" /\ EqButton)

EqSpec == EqInit /\ [][EqNext]_vars

-----------------------------------------------------------------------------
(* Properties *)

Last(q) == q[Len(q)]

\* a finished run that entered the try block of migrate_vN
Migrated(h) == h.outcome \in {"Committed", "Error", "RolledBack", "Failed"}

\* the rows of a store without their updated_at stamp
Data(d) == [t \in DOMAIN d |-> {[f \in DOMAIN r \ {"updated_at"} |-> r[f]] : r \in d[t]}]

\* a message of a v4-only block that reports a failure other than the absence
\* of the optional file or table
FamilyFailure(m) == m.kind \in {"Failed", "Warn"} /\ m.err \notin {NoSuchTable, FileNotFound}

AllFamiliesWritten(h) ==
    h.success /\ \A i \in DOMAIN h.messages : ~FamilyFailure(h.messages[i])

\* C1: when a run ends, either every table family of its generation was
\* written (success, and no family reported a failure) or the destination
\* holds no write of the run: its rows are those it held before the run.
C1_AllOrNothing ==
    \A i \in DOMAIN hist :
        Migrated(hist[i]) =>
            AllFamiliesWritten(hist[i]) \/ Data(hist[i].after) = Data(hist[i].before)

\* C2: a run whose N-th family failed in the migrating phase and whose
\* rollback reported success leaves every destination row exactly as it was
\* before the run, timestamps included.
C2_RollbackRestoresExactly ==
    \A i \in DOMAIN hist :
        (hist[i].failedAt \notin {"", "backup"} /\ hist[i].outcome = "RolledBack")
            => hist[i].after = hist[i].before

\* the final message tells the two rollback results apart, and is one of them
RollbackReported(h) ==
    /\ ~h.success
    /\ h.messages # <<>>
    /\ Last(h.messages).kind \in {"RolledBack", "RollbackFailed"}
    /\ (Last(h.messages).kind = "RolledBack" <=> h.restore = "completed")
    /\ (Last(h.messages).kind = "RollbackFailed" <=> h.restore = "raised")

Fresh(d) == \A t \in DestTables \ {"alliance_list"} : d[t] = {}

\* two finished runs of the same generation over the same, unchanged source,
\* the first of them into a fresh destination
SameSourceTwice ==
    /\ Len(hist) = 2 /\ dirExists
    /\ hist[1].version \in {"v2", "v3", "v4"}
    /\ hist[2].version = hist[1].version
    /\ Migrated(hist[1]) /\ Migrated(hist[2])
    /\ Fresh(hist[1].before)

\* a stamp the code takes from the clock (ticks 1, 2, ...), whichever run set it
ClockSet(v) == IF v >= 1 THEN 1 ELSE v
\* the store without updated_at and with the stamps that default to
\* datetime.now() reduced to "set from the clock"
Stable(d) ==
    [t \in DOMAIN d |->
        {[f \in DOMAIN r \ {"updated_at"} |->
            IF (t = "bear_notifications" /\ f = "sent_at")
               \/ (t \in {"bear_notification_embeds", "backup_passwords"} /\ f = "created_at")
            THEN ClockSet(r[f]) ELSE r[f]] : r \in d[t]}]

WellFormedSource ==
    /\ \A t \in Range(LegacyTables) : src[t].state = "ok"
    /\ \A i \in DOMAIN src["users"].rows :
          LET r == src["users"].rows[i]
          IN /\ IsInt(r[1]) /\ IsStr(r[2]) /\ IsInt(r[3])
             /\ \A j \in DOMAIN src["users"].rows : src["users"].rows[j][1] = r[1] => j = i

\* C6: a v3 run over a well-formed source with n users rows and m
\* alliance_list rows into an empty destination succeeds, leaves n User rows
\* and m Alliance rows with the source's values, and reports "Migrated n
\* users" and "Migrated m alliances".
C6_V3Scenario ==
    \A i \in DOMAIN hist :
        (hist[i].version = "v3" /\ Migrated(hist[i]) /\ hist[i].before = EmptyDest
         /\ WellFormedSource)
        => LET h == hist[i]
               n == Len(src["users"].rows)
               m == Len(src["alliance_list"].rows)
           IN /\ h.success
              /\ Cardinality(h.after["users"]) = n
              /\ \A k \in 1..n : \E u \in h.after["users"] :
                    /\ u.fid = src["users"].rows[k][1]
                    /\ u.nickname = src["users"].rows[k][2]
                    /\ u.alliance = src["users"].rows[k][6]
              /\ Cardinality(h.after["alliance_list"]) = m
              /\ \E k \in DOMAIN h.messages : h.messages[k] = M("Migrated", "users", n)
              /\ \E k \in DOMAIN h.messages : h.messages[k] = M("Migrated", "alliances", m)

\* the record migrate_v4 hands to _validate_data for a users row
UserData(r) == [fid |-> r[1], nickname |-> r[2], furnace_lv |-> r[3]]

\* C7: in a v4 run no users row that fails validation is written to the
\* destination at any point, and such a row does not abort the run.
C7_ValidationExclusion ==
    (version = "v4" /\ pc # "entry" /\ src["users"].state = "ok") =>
        \A i \in DOMAIN src["users"].rows :
            LET r == src["users"].rows[i] IN
            ~validate_data("users", UserData(r)) =>
                /\ ~\E u \in dest["users"] \ before["users"] :
                        u.nickname = TextCoerce(r[2]) /\ u.furnace_lv = IntCoerce(r[3])
                        /\ (IntOk(r[1]) => u.fid = ToInt(r[1]))
                /\ failedAt # "users"

InFiles(F) == dirExists /\ F \subseteq files

\* C8: detection answers none when the directory does not exist, v4 when the
\* 8 v4 files are present, v3 when the 5 v3 files are present but not all 8,
\* v2 when no complete v3 set is present and the combined file is, unknown
\* when the directory exists and matches none of these; exactly the 5 v3
\* files give v3, the 8 give v4, 2 of the 5 give unknown.
C8_Detection ==
    pc = "detected" =>
        /\ (~dirExists => version = "none")
        /\ (InFiles(v4_files) => version = "v4")
        /\ (InFiles(v3_files) /\ ~InFiles(v4_files) => version = "v3")
        /\ (InFiles({v2_file}) /\ ~InFiles(v3_files) => version = "v2")
        /\ (dirExists /\ ~InFiles({v2_file}) /\ ~InFiles(v3_files) => version = "unknown")
        /\ (dirExists /\ files = v3_files => version = "v3")
        /\ (dirExists /\ files = v3_files \cup {"id_channel.sqlite", "beartime.sqlite", "backup.sqlite"}
               => version = "v4")
        /\ (dirExists /\ files \subseteq v3_files /\ Cardinality(files) = 2 => version = "unknown")
        /\ version \in {"none", "v2", "v3", "v4", "unknown"}

C8_Witness ==
    /\ pc = "detected" /\ dirExists
    /\ files = {"users.sqlite", "changes.sqlite"}
    /\ version = "unknown"

\* C9: when migrate_v2 / migrate_v3 / migrate_v4 has returned, by whichever
\* exit path, no source connection is open and the connection cache is empty.
C9_ConnectionsReleased ==
    pc = "idle" => db_connections = EmptyMap /\ liveConns = {}

C9_Witness ==
    /\ pc = "idle" /\ outcome = "Failed" /\ opened >= 2
    /\ db_connections = EmptyMap

\* C10: the cache holds one live connection per cached path and no other
\* connection is open; a path that is already cached is served from the
\* cache, so the connections opened never outnumber the distinct paths
\* acquired.
C10_OneConnectionPerPath ==
    /\ \A p \in DOMAIN db_connections : \A q \in DOMAIN db_connections :
          db_connections[p] = db_connections[q] => p = q
    /\ Range(db_connections) = liveConns
    /\ DOMAIN db_connections = acquired
    /\ opened <= Cardinality(acquired)

C10_Witness ==
    /\ pc = "pool" /\ outcome = "hit" /\ exc = ""
    /\ opened = 2 /\ Cardinality(liveConns) = 2 /\ poolOps >= 3

\* C11: an acquire for a path that does not exist fails with the
\* source-not-found error, opens no connection, creates no file and leaves
\* the connection cache unchanged, in both classes of the engine.
C11_MissingPathAcquire ==
    [][(pc = "pool" /\ poolOps' = poolOps + 1 /\ path' \notin files) =>
          /\ exc' = "DatabaseError"
          /\ files' = files
          /\ liveConns' = liveConns
          /\ db_connections' = db_connections]_vars

\* C12: a v2 run whose selection times out ends with the destination as it
\* was; from the start of the run to its end no row is written, no
\* transaction is opened, no snapshot is taken and no source connection is
\* opened.
C12_TimeoutNoOp ==
    /\ (pc = "await" \/ (pc = "idle" /\ outcome = "timeout")) =>
          /\ version = "v2"
          /\ dest = before
          /\ txn = NoTxn
          /\ rollback_data = EmptyMap
          /\ opened = 0 /\ acquired = {}
          /\ liveConns = {} /\ db_connections = EmptyMap
    /\ \A i \in DOMAIN hist :
          hist[i].outcome = "timeout" =>
              /\ hist[i].after = hist[i].before
              /\ hist[i].restore = "none"
              /\ ~hist[i].success

C12_Witness ==
    /\ pc = "idle" /\ outcome = "timeout"
    /\ Len(hist) = 2 /\ hist[1].outcome = "Committed"
    /\ dest["users"] # {} /\ dest = hist[1].after

\* C13: the detecting step of a run opens no source connection and changes
\* neither the destination nor the snapshot store; when it answers none or
\* unknown the run ends in that same step with that outcome reported, with
\* no snapshot taken, no rollback attempted, no migrator run and the
\* destination unchanged.
C13_DetectionFrame ==
    [][(pc = "idle" /\ runs' = runs + 1) =>
          /\ db_connections' = db_connections /\ liveConns' = liveConns
          /\ opened' = 0 /\ acquired' = {}
          /\ dest' = dest /\ rollback_data' = rollback_data
          /\ files' = files /\ dirExists' = dirExists
          /\ (version' \in {"none", "unknown"} =>
                /\ pc' = "idle" /\ outcome' = version' /\ ~success'
                /\ txn' = NoTxn /\ restore' = "none" /\ messages' = <<>>
                /\ hist' = Append(hist, Last(hist'))
                /\ Last(hist').outcome = version'
                /\ Last(hist').after = dest /\ Last(hist').before = dest)]_vars

C13_Witness ==
    /\ pc = "idle" /\ outcome = "none" /\ version = "none"
    /\ Len(hist) = 2 /\ hist[1].outcome = "NotFound"
    /\ dest # EmptyDest

\* position of a family in the documented order, by the name of its step and
\* by the names its messages use (0: not a family)
FamilyRank(x) ==
    CASE x \in {"users"} -> 1
      [] x \in {"alliances", "alliance settings"} -> 2
      [] x \in {"giftcodes", "gift codes", "user gift codes"} -> 3
      [] x \in {"changes", "furnace changes", "nickname changes"} -> 4
      [] x \in {"settings", "bot settings", "admin settings"} -> 5
      [] x \in {"id_channel", "ID channel", "ID channel mappings", "v4tables"} -> 6
      [] x \in {"beartime", "bear notifications"} -> 7
      [] x \in {"Bear time", "bear notification embeds"} -> 8
      [] x \in {"backupdata", "Backup data", "backup passwords"} -> 9
      [] OTHER -> 0

InDocumentedOrder(msgs) ==
    \A i \in DOMAIN msgs : \A j \in DOMAIN msgs :
        (i < j /\ FamilyRank(msgs[i].what) > 0 /\ FamilyRank(msgs[j].what) > 0)
            => FamilyRank(msgs[i].what) <= FamilyRank(msgs[j].what)

\* C14: in every run the families are processed one after the other in the
\* documented order (users, alliances/settings, gift codes, change-history,
\* bot/admin settings, id-channel, notification parents, notification
\* details, backup credentials), and the messages of the report are in that
\* order.
C14_DocumentedOrder ==
    /\ [](InDocumentedOrder(messages)
          /\ \A i \in DOMAIN hist : InDocumentedOrder(hist[i].messages))
    /\ [][(FamilyRank(pc) > 0 /\ FamilyRank(pc') > 0 /\ pc' # pc)
             => FamilyRank(pc') > FamilyRank(pc)]_vars

\* destination kinds the migrators of a generation write
GenWrites(gen) ==
    CASE gen = "v2" -> {"users"}
      [] gen = "v3" -> {"users", "alliance_list", "furnace_changes"}
      [] gen = "v4" -> DestTables
      [] OTHER -> {}

\* C15: while a run is in its migrating phase, every entity kind it has
\* written was snapshotted in that run before the write, and no kind its
\* generation never writes has been snapshotted.
C15_SnapshotCoverage ==
    pc \in {"users", "alliances", "giftcodes", "changes", "settings", "id_channel",
            "beartime", "backupdata", "commit"} =>
        /\ \A t \in DestTables : dest[t] # before[t] => t \in DOMAIN rollback_data
        /\ DOMAIN rollback_data \subseteq GenWrites(version)

\* a source row of bear_notifications / bear_notification_embeds that the
\* block can convert: integer ids and a stamp that parses
NotificationRowOk(r) == IsInt(r[2]) /\ IsInt(r[3]) /\ ~StampRaises(r, 3)
EmbedRowOk(r) == IsInt(r[2]) /\ ~StampRaises(r, 3)
HasSourceParent(r) ==
    \E k \in DOMAIN src["bear_notifications"].rows :
        src["bear_notifications"].rows[k][2] = r[2]

\* C16: in a v4 run whose timed-notification rows are otherwise well formed,
\* a detail row without a parent in the source neither crashes nor rolls
\* back the run; every detail row whose parent is in the source is migrated,
\* whether it comes before or after the orphan, and the backup credentials
\* are migrated.
C16_OrphanDetailIsRowLevel ==
    \A i \in DOMAIN hist :
        LET h == hist[i]
            ns == src["bear_notifications"].rows
            es == src["bear_notification_embeds"].rows
        IN (/\ h.version = "v4" /\ h.failedAt = "" /\ Migrated(h)
            /\ \A k \in DOMAIN ns : NotificationRowOk(ns[k])
            /\ \A k \in DOMAIN es : EmbedRowOk(es[k]))
           => /\ h.outcome = "Committed"
              /\ \A k \in DOMAIN es :
                    HasSourceParent(es[k]) =>
                        \E e \in h.after["bear_notification_embeds"] :
                            e.notification = es[k][2] /\ e.title = es[k][3]
              /\ \A k \in DOMAIN src["backup_passwords"].rows :
                    \E b \in h.after["backup_passwords"] :
                        b.discord_id = src["backup_passwords"].rows[k][1]

\* C17: an alliance row without discord_server_id migrates with null, an
\* alliance-settings row without interval migrates with 0, and a short row
\* never makes the alliances migrator fail.
C17_ShortRowDefaults ==
    \A i \in DOMAIN hist :
        LET h == hist[i]
            as == src["alliance_list"].rows
        IN (h.version \in {"v3", "v4"} /\ Migrated(h) /\ h.failedAt \notin {"backup", "users"})
           => /\ h.failedAt # "alliances"
              /\ (h.outcome = "Committed" =>
                    \A k \in DOMAIN as :
                        \E a \in h.after["alliance_list"] :
                            /\ a.alliance_id = as[k][1] /\ a.name = as[k][2]
                            /\ a.discord_server_id = (IF Len(as[k]) > 2 THEN as[k][3] ELSE NULL))

\* no two rows of a table agree on the key
UniqueKey(rows, Key(_)) == \A r \in rows : \A q \in rows : Key(r) = Key(q) => r = q

\* C18: at every point of every sequence of runs, no destination table holds
\* two rows with the same key: fid for users, notification_id for timed
\* notifications, (notification, title) for their details, discord_id for
\* backup credentials, and the row id of every table with one.
C18_KeysUnique ==
    /\ UniqueKey(dest["users"], LAMBDA r : r.fid)
    /\ UniqueKey(dest["alliance_list"], LAMBDA r : r.alliance_id)
    /\ UniqueKey(dest["furnace_changes"], LAMBDA r : r.id)
    /\ UniqueKey(dest["bear_notifications"], LAMBDA r : r.notification_id)
    /\ UniqueKey(dest["bear_notifications"], LAMBDA r : r.id)
    /\ UniqueKey(dest["bear_notification_embeds"], LAMBDA r : <<r.notification, r.title>>)
    /\ UniqueKey(dest["bear_notification_embeds"], LAMBDA r : r.id)
    /\ UniqueKey(dest["backup_passwords"], LAMBDA r : r.discord_id)

\* a committed run whose source repeats a notification id that the
\* destination already held
C18_Witness ==
    /\ pc = "idle" /\ outcome = "Committed" /\ version = "v4"
    /\ Len(src["bear_notifications"].rows) = 2
    /\ \A k \in DOMAIN src["bear_notifications"].rows : src["bear_notifications"].rows[k][2] = 7
    /\ before["bear_notifications"] = {PreNotification}
    /\ Cardinality(dest["bear_notifications"]) = 1
    /\ dest["bear_notifications"] # before["bear_notifications"]

\* C19: after a successful run every reference held by a row the run wrote
\* resolves to a row of the destination: a user's alliance to an alliance, a
\* change-history row's fid to a user, a detail's notification to a timed
\* notification; a source row with a dangling reference is not written.
C19_ReferencesResolve ==
    \A i \in DOMAIN hist :
        LET h == hist[i] IN
        (h.success /\ Migrated(h)) =>
            /\ \A u \in h.after["users"] \ h.before["users"] :
                  u.alliance # NULL =>
                      \E a \in h.after["alliance_list"] :
                          IntOk(u.alliance) /\ ToInt(u.alliance) = a.alliance_id
            /\ \A c \in h.after["furnace_changes"] \ h.before["furnace_changes"] :
                  \E u \in h.after["users"] : u.fid = c.fid
            /\ \A e \in h.after["bear_notification_embeds"] \ h.before["bear_notification_embeds"] :
                  \E n \in h.after["bear_notifications"] : n.notification_id = e.notification

\* C20: a run over a source in which a required table exists but lacks an
\* expected column (id_channel without last_message_id, backup_passwords
\* without created_at) reports success = false and never ends as Committed.
C20_SchemaMismatchFatal ==
    \A i \in DOMAIN hist :
        (/\ hist[i].version = "v4" /\ Migrated(hist[i])
         /\ \E t \in NoColTables : src[t].state = "nocol")
        => ~hist[i].success /\ hist[i].outcome # "Committed"

\* the name under which the block that reads a v4-only table reports
BlockOf(t) ==
    CASE t = "id_channel" -> "ID channel"
      [] t \in {"bear_notifications", "bear_notification_embeds"} -> "Bear time"
      [] t = "backup_passwords" -> "Backup data"

C22_RowFailureIsRowLevel ==
    \A i \in DOMAIN hist :
        LET h == hist[i]
            ns == src["bear_notifications"].rows
            bs == src["backup_passwords"].rows
        IN (h.version = "v4" /\ h.failedAt = "" /\ Migrated(h)
            /\ src["bear_notifications"].state = "ok"
            /\ src["backup_passwords"].state = "ok")
           => /\ h.outcome = "Committed" /\ h.success
              /\ \A k \in DOMAIN ns :
                    NotificationRowOk(ns[k]) =>
                        \E n \in h.after["bear_notifications"] :
                            n.notification_id = ns[k][2]
              /\ \A k \in DOMAIN bs :
                    ~StampRaises(bs[k], 2) =>
                        \E b \in h.after["backup_passwords"] :
                            b.discord_id = bs[k][1]

\* C23: the outcome the v4 users loop acts on for a row is the accept /
\* reject value of the validator: in a committed v4 run the users rows
\* written are those of the source rows the validator accepts, and no others.
C23_MigratorActsOnValidation ==
    \A i \in DOMAIN hist :
        LET h == hist[i]
            us == src["users"].rows
        IN (h.version = "v4" /\ Migrated(h) /\ h.outcome = "Committed"
            /\ src["users"].state = "ok")
           => {u.fid : u \in h.after["users"] \ h.before["users"]}
                = {us[k][1] : k \in {j \in DOMAIN us : validate_data("users", UserData(us[j]))}}

\* the destination kind a "Migrated N ..." message speaks of, for the
\* families whose rows the destination keeps
KindOf(what) ==
    CASE what = "users" -> "users"
      [] what = "bear notifications" -> "bear_notifications"
      [] what = "bear notification embeds" -> "bear_notification_embeds"
      [] what = "backup passwords" -> "backup_passwords"
      [] OTHER -> ""

\* C24: in the report of a run that ended with success = true, the count of
\* every "Migrated N ..." message equals the number of rows of that family
\* the run wrote to the destination (rows created or changed).
C24_CountIsRowsWritten ==
    \A i \in DOMAIN hist :
        LET h == hist[i] IN
        (Migrated(h) /\ h.success) =>
            \A k \in DOMAIN h.messages :
                LET m == h.messages[k] IN
                (m.kind \in {"Migrated", "OkMigrated"} /\ KindOf(m.what) # "")
                => m.n = Cardinality(h.after[KindOf(m.what)] \ h.before[KindOf(m.what)])

KnownAlliances(d) == {al.alliance_id : al \in d["alliance_list"]}

\* C25: the wait for a selection is entered only in a v2 run; while a v2 run
\* waits nothing has been written; once it migrates, the alliance it uses is
\* one of the ids _get_alliances listed, and every user it writes carries
\* that id (as text) as its alliance.
C25_SelectionBeforeWrite ==
    /\ pc = "await" => (version = "v2" /\ dest = before /\ alliance_id = 0)
    /\ (version = "v2" /\ pc \notin {"idle", "await"}) =>
            alliance_id \in KnownAlliances(before)
    /\ version = "v2" =>
            \A u \in dest["users"] \ before["users"] :
                /\ alliance_id \in KnownAlliances(before)
                /\ u.alliance = Str(alliance_id)
    /\ (version \in {"v3", "v4"} /\ pc # "idle") => alliance_id = 0

C25_Witness ==
    /\ pc = "idle" /\ version = "v2" /\ outcome = "Committed"
    /\ KnownAlliances(before) = {5, 6} /\ alliance_id = 6
    /\ \E u \in dest["users"] \ before["users"] : u.alliance = Str(6)

\* C26: an upsert keeps what the source supplies no value for.  A v2 run
\* over an existing user leaves its kid, stove_lv_content and created_at as
\* they were; a v4 run over users rows that lack created_at does not fail at
\* the users family, keeps the created_at of a user that existed and gives a
\* created user the time of the write.
C26_UpsertFrame ==
    \A i \in DOMAIN hist :
        LET h == hist[i]
            us == src["users"].rows
        IN (/\ Migrated(h) /\ src["users"].state = "ok"
            /\ \A k \in DOMAIN us : IsInt(us[k][1]) /\ IsInt(us[k][3]))
           => /\ (h.version = "v4" => h.failedAt # "users")
              /\ (h.version \in {"v2", "v4"} /\ h.outcome = "Committed") =>
                    \A k \in DOMAIN us :
                        \A u \in h.after["users"] :
                            (u.fid = us[k][1] /\ (h.version = "v4" => Len(us[k]) <= 7)) =>
                                /\ u.created_at # NULL
                                /\ \A u0 \in h.before["users"] :
                                      u0.fid = u.fid =>
                                          /\ u.created_at = u0.created_at
                                          /\ (h.version = "v2" =>
                                                /\ u.kid = u0.kid
                                                /\ u.stove_lv_content = u0.stove_lv_content)

C28_ParentByBusinessId ==
    version = "v4" =>
        \A e \in dest["bear_notification_embeds"] \ before["bear_notification_embeds"] :
            /\ \E k \in DOMAIN src["bear_notification_embeds"].rows :
                  LET r == src["bear_notification_embeds"].rows[k]
                  IN r[2] = e.notification /\ TextCoerce(r[3]) = e.title
            /\ \E n \in dest["bear_notifications"] : n.notification_id = e.notification
            /\ \E k \in DOMAIN src["bear_notifications"].rows :
                  src["bear_notifications"].rows[k][2] = e.notification

C28_Witness ==
    /\ pc = "idle" /\ version = "v4" /\ outcome = "Committed"
    /\ Len(src["bear_notifications"].rows) = 2
    /\ src["bear_notifications"].rows[1][2] = 8
    /\ src["bear_notifications"].rows[2] = <<1, 7, 30, 160>>
    /\ Len(src["bear_notification_embeds"].rows) = 1
    /\ \E e \in dest["bear_notification_embeds"] \ before["bear_notification_embeds"] :
       \E n \in dest["bear_notifications"] :
            /\ e.notification = 7 /\ n.notification_id = 7
            /\ n.id = 2 /\ e.id = 1

\* C29: a rollback is all-or-nothing over the snapshotted kinds.  When it
\* completed, every kind in the snapshot store holds exactly the rows of its
\* snapshot; when it raised, the destination is as it was when the rollback
\* began, with no kind emptied or partly restored.
C29_RollbackAllOrNothing ==
    (pc = "idle" /\ hist # <<>>) =>
        /\ Last(hist).restore = "completed" =>
              \A t \in DOMAIN rollback_data : dest[t] = rollback_data[t]
        /\ Last(hist).restore = "raised" =>
              /\ dest = Last(hist).before
              /\ \A t \in DOMAIN rollback_data :
                    rollback_data[t] # {} => dest[t] # {}

\* C30: with several callbacks in flight on one MigrationButton, no run
\* reads through a connection another run opened, no run's cleanup closes a
\* connection of a run that is still migrating, no connection is used after
\* it was closed, and only the PRAGMA of _get_connection and SELECTs are
\* executed on source connections.  Whenever every run is suspended the
\* connection cache is empty, and a cached connection belongs to the run
\* that holds the event loop.
C30_ConnectionsNotShared ==
    pc = "conc" =>
        /\ \A t \in DOMAIN conc.task :
              LET T == conc.task[t]
              IN ~T.foreign /\ ~T.stale /\ ~T.stole /\ T.stmts \subseteq {"PRAGMA", "SELECT"}
        /\ conc.running = 0 => (db_connections = EmptyMap /\ liveConns = {})
        /\ \A h \in Range(db_connections) : conc.owner[h] = conc.running
        /\ liveConns = Range(db_connections)

C30_Witness ==
    /\ pc = "conc"
    /\ conc.task[1].pc = "await" /\ conc.running = 0
    /\ conc.task[2].pc = "done" /\ conc.task[2].n = 1
    /\ conc.task[2].stmts = {"PRAGMA", "SELECT"}

\* the outcomes a run can end with
TerminalOutcomes ==
    {"none", "unknown", "no_alliance", "timeout", "NotFound", "Error",
     "Committed", "RolledBack", "Failed"}

\* C31: every run that was started ends, with exactly one outcome: while a
\* run is under way the report list holds one record per earlier run, when
\* it is over one record per run, each with a terminal outcome; a run enters
\* migrate_vN only from callback, never again after a failure, and reports
\* are only ever appended, one at a time, by the step that ends the run.
C31_OneTerminalOutcome ==
    /\ (pc # "idle") ~> (pc = "idle")
    /\ [](Len(hist) = IF pc = "idle" THEN runs ELSE runs - 1)
    /\ [](\A i \in DOMAIN hist : hist[i].outcome \in TerminalOutcomes)
    /\ [][/\ (pc' = "entry" /\ pc # "entry") => pc \in {"idle", "await"}
          /\ (pc \notin {"idle", "await", "entry"} => pc' \notin {"await", "entry", "users"})
          /\ (hist' # hist => (pc' = "idle" /\ hist' = Append(hist, Last(hist'))))]_vars

C31_Witness ==
    /\ pc = "idle" /\ runs = 2 /\ Len(hist) = 2
    /\ hist[1].outcome = "RolledBack" /\ hist[2].outcome = "RolledBack"
    /\ hist[1].failedAt = "giftcodes"

\* C32: a v4 run that failed while snapshotting has written nothing, and its
\* rollback restores only what this run snapshotted: whether the rollback
\* completed or not, every kind holds the rows it held when the run began
\* (their updated_at aside).
C32_OnlyOwnSnapshots ==
    \A i \in DOMAIN hist :
        (hist[i].version = "v4" /\ hist[i].failedAt = "backup")
            => Data(hist[i].after) = Data(hist[i].before)

\* C33: when the combined v2 file lies next to files of the other layouts,
\* a complete v4 set is detected as v4 and a complete v3 set as v3, both
\* with the legacy root as the path; with neither set complete the answer
\* is v2, with the combined file as the path, and never unknown.
C33_LayoutPrecedence ==
    (pc = "detected" /\ InFiles({v2_file})) =>
        /\ InFiles(v4_files) => (version = "v4" /\ path = base_path)
        /\ (InFiles(v3_files) /\ ~InFiles(v4_files)) => (version = "v3" /\ path = base_path)
        /\ ~InFiles(v3_files) => (version = "v2" /\ path = v2_file)
        /\ version # "unknown"

C33_Witness ==
    /\ pc = "detected"
    /\ files = (v4_files \ {"backup.sqlite", "users.sqlite"}) \cup {v2_file}
    /\ version = "v2" /\ path = v2_file

\* C34: the step that ends a failed run builds the report from the messages
\* gathered so far.  For a v2 or v3 run the report is success = false with
\* exactly one message, the error text: the progress messages are dropped.
\* For a v4 run it is success = false with the progress messages kept, in
\* order, followed by one rollback message.
C34_FailureReport ==
    [][(pc = "except" /\ pc' = "idle") =>
          /\ ~success'
          /\ (version \in {"v2", "v3"} =>
                /\ Len(messages') = 1
                /\ messages' = <<ME("Error", "", exc)>>)
          /\ (version = "v4" =>
                /\ Len(messages') = Len(messages) + 1
                /\ SubSeq(messages', 1, Len(messages)) = messages
                /\ Last(messages').kind \in {"RolledBack", "RollbackFailed"})
          /\ Last(hist').messages = messages' /\ Last(hist').success = success']_vars

C34_Witness ==
    /\ pc = "idle" /\ version = "v3" /\ failedAt = "giftcodes" /\ ~success
    /\ messages = <<ME("Error", "", "AttributeError")>>
    /\ Len(src["users"].rows) = 1

\* C35: when the migrating phase of a v4 run fails, the rollback completes
\* and is reported as succeeded, whatever the destination held before the
\* run, rows of kinds outside the snapshot that reference snapshotted rows
\* included.
C35_RollbackNeverBlocked ==
    \A i \in DOMAIN hist :
        LET h == hist[i] IN
        (h.version = "v4" /\ h.failedAt \notin {"", "backup"} /\ noTable = {})
            => /\ h.restore = "completed"
               /\ h.outcome = "RolledBack"
               /\ Last(h.messages).kind = "RolledBack"

\* C36: DatabaseMigration.migrate_vN and MigrationButton.migrate_vN (v2,
\* v3), started from the same destination state over the same source, give
\* the same success flag, the same message list and the same destination.
C36_ImplementationsAgree ==
    (pc = "idle" /\ Len(hist) = 2) =>
        /\ hist[1].before = hist[2].before
        /\ hist[1].success = hist[2].success
        /\ hist[1].messages = hist[2].messages
        /\ hist[1].after = hist[2].after



====
